---- MODULE Spec2Model ----
(***************************************************************************)
(* Notification dispatch layer (email + SMS): validation, template         *)
(* resolution, rendering and the single / bulk dispatch coordinators.      *)
(*                                                                         *)
(* JavaScript strings are sequences of UTF-16 code units; a code unit is   *)
(* written as a one-character TLA+ string ("a", " ", "{") and a non-ASCII  *)
(* code unit as its code point name ("u00E9").                             *)
(***************************************************************************)
EXTENDS Integers, Sequences, FiniteSets, TLC

\* ------------------------------------------------------------------------
\* Code units and the String.prototype methods the program calls
\* ------------------------------------------------------------------------

UpperChars == <<"A","B","C","D","E","F","G","H","I","J","K","L","M",
                "N","O","P","Q","R","S","T","U","V","W","X","Y","Z",
                "u00C9","u00C7">>
LowerChars == <<"a","b","c","d","e","f","g","h","i","j","k","l","m",
                "n","o","p","q","r","s","t","u","v","w","x","y","z",
                "u00E9","u00E7">>
DigitChars == {"0","1","2","3","4","5","6","7","8","9"}
SpaceChars == {" ", "\t", "\n"}
NonAsciiChars == {"u00E0","u00E7","u00E8","u00E9","u00F4","u00C9","u00C7",
                  "u221A","u00DF"}

UpperSet == {UpperChars[i] : i \in 1..Len(UpperChars)}
AsciiLetters == {UpperChars[i] : i \in 1..26} \cup {LowerChars[i] : i \in 1..26}

\* String.prototype.toLowerCase, one code unit
LowerOf == [c \in UpperSet |-> LowerChars[CHOOSE i \in 1..Len(UpperChars) : UpperChars[i] = c]]
toLowerChar(c) == IF c \in UpperSet THEN LowerOf[c] ELSE c

\* String.prototype.toLowerCase
toLowerCase(s) == [i \in 1..Len(s) |-> toLowerChar(s[i])]

\* String.prototype.trim: strip the white space at both ends
trim(s) ==
    LET keep == {i \in 1..Len(s) : s[i] \notin SpaceChars}
    IN  IF keep = {} THEN <<>>
        ELSE LET lo == CHOOSE i \in keep : \A j \in keep : i <= j
                 hi == CHOOSE i \in keep : \A j \in keep : i >= j
             IN  SubSeq(s, lo, hi)

\* s.replace(/[-_\s]/g, '_'): every hyphen, underscore or white space
\* code unit becomes one underscore
replaceSeparators(s) ==
    [i \in 1..Len(s) |-> IF s[i] \in ({"-", "_"} \cup SpaceChars) THEN "_" ELSE s[i]]

\* s.replace(/\D/g, ''): drop every code unit that is not a digit
RECURSIVE stripNonDigits(_)
stripNonDigits(s) ==
    IF s = <<>> THEN <<>>
    ELSE (IF Head(s) \in DigitChars THEN <<Head(s)>> ELSE <<>>) \o stripNonDigits(Tail(s))

\* positions where pattern p occurs in s
matchesOf(s, p) ==
    {i \in 1..(Len(s) - Len(p) + 1) : s[i] = p[1] /\ SubSeq(s, i, i + Len(p) - 1) = p}

\* The replacement text of String.prototype.replace for one match: in a
\* string replacement $$ stands for "$", $& for the matched text, $` for
\* the text before the match and $' for the text after it; a "$" before
\* anything else stays (the patterns used here have no capture group)
RECURSIVE substitution(_, _, _, _)
substitution(v, matched, before, after) ==
    IF \A i \in 1..Len(v) : v[i] # "$" THEN v
    ELSE IF v[1] # "$" \/ Len(v) = 1 THEN <<v[1]>> \o substitution(Tail(v), matched, before, after)
    ELSE LET rest == substitution(SubSeq(v, 3, Len(v)), matched, before, after)
         IN  CASE v[2] = "$" -> <<"$">> \o rest
               [] v[2] = "&" -> matched \o rest
               [] v[2] = "`" -> before \o rest
               [] v[2] = "'" -> after \o rest
               [] OTHER -> <<"$">> \o substitution(Tail(v), matched, before, after)

\* s.replace(new RegExp(p, 'g'), v) for a literal pattern p: every
\* occurrence, leftmost first, non-overlapping; the replacement is not
\* scanned again
RECURSIVE replaceFrom(_, _, _, _)
replaceFrom(s, p, v, from) ==
    LET ms == {i \in matchesOf(s, p) : i >= from}
    IN  IF ms = {} THEN SubSeq(s, from, Len(s))
        ELSE LET m == CHOOSE i \in ms : \A j \in ms : i <= j
             IN  SubSeq(s, from, m - 1)
                     \o substitution(v, p, SubSeq(s, 1, m - 1), SubSeq(s, m + Len(p), Len(s)))
                     \o replaceFrom(s, p, v, m + Len(p))
replaceAll(s, p, v) == replaceFrom(s, p, v, 1)

\* s.replace(p, v) with a string pattern: the first occurrence only
replaceFirst(s, p, v) ==
    LET ms == matchesOf(s, p)
    IN  IF ms = {} THEN s
        ELSE LET m == CHOOSE i \in ms : \A j \in ms : i <= j
             IN  SubSeq(s, 1, m - 1)
                     \o substitution(v, p, SubSeq(s, 1, m - 1), SubSeq(s, m + Len(p), Len(s)))
                     \o SubSeq(s, m + Len(p), Len(s))

\* ------------------------------------------------------------------------
\* JavaScript values: undefined, null, a number, a string
\* ------------------------------------------------------------------------

Undef == [t |-> "undefined", n |-> 0, s |-> <<>>]
Null == [t |-> "null", n |-> 0, s |-> <<>>]
Num(k) == [t |-> "number", n |-> k, s |-> <<>>]
Str(chars) == [t |-> "string", n |-> 0, s |-> chars]

\* ToBoolean
Truthy(v) ==
    CASE v.t = "undefined" -> FALSE
      [] v.t = "null" -> FALSE
      [] v.t = "number" -> v.n # 0
      [] v.t = "string" -> v.s # <<>>
      [] OTHER -> TRUE

IsNullish(v) == v.t \in {"undefined", "null"}

\* a request argument: an object with fields, or a value that is no object
FieldNames == {"email", "phoneNumber", "ticketId", "name", "language", "subject",
               "assignedTo", "escalatedTo", "issueTitle", "responseMessage"}
NoFields == [k \in FieldNames |-> Undef]
Obj(fields) == [t |-> "object", n |-> 0, f |-> fields]
NonObj(v) == [t |-> v.t, n |-> v.n, f |-> NoFields]

\* data.field: undefined on a primitive; reading a property of null or
\* undefined throws a TypeError (see the callers)
Get(data, field) == IF data.t = "object" THEN data.f[field] ELSE Undef
TruthyData(data) == data.t = "object" \/ (data.t = "number" /\ data.n # 0)

\* ------------------------------------------------------------------------
\* Template stores (emailTemplates.js, smsTemplates.js)
\* ------------------------------------------------------------------------

\* the template keys (Object.keys(templates)) and the language names

K_received ==
    <<"r","e","c","e","i","v","e","d">>

K_resolved ==
    <<"r","e","s","o","l","v","e","d">>

K_escalated ==
    <<"e","s","c","a","l","a","t","e","d">>

K_assigned ==
    <<"a","s","s","i","g","n","e","d">>

K_closed ==
    <<"c","l","o","s","e","d">>

K_in_progress ==
    <<"i","n","_","p","r","o","g","r","e","s","s">>

L_english ==
    <<"e","n","g","l","i","s","h">>

L_french ==
    <<"f","r","e","n","c","h">>

L_kinyarwanda ==
    <<"k","i","n","y","a","r","w","a","n","d","a">>

\* templates[status][language].message of the SMS template store
smsTemplates ==
    K_received :> (
      L_english :>
          <<"H","i"," ","{","n","a","m","e","}",","," ","y","o","u","r"," ","i","s","s","u","e"," ",
            "{","t","i","c","k","e","t","I","d","}"," ","h","a","s"," ","b","e","e","n"," ","r","e",
            "c","e","i","v","e","d","."," ","W","e","'","l","l"," ","r","e","v","i","e","w"," ","i",
            "t"," ","s","o","o","n","."," ","T","r","a","c","k",":"," ","h","t","t","p","s",":","/",
            "/","c","e","s","-","f","r","o","n","t","e","n","d","-","z","e","t","a",".","v","e","r",
            "c","e","l",".","a","p","p","/","f","o","l","l","o","w","u","p","?","i","d","=","{","t",
            "i","c","k","e","t","I","d","}">>
      @@ L_french :>
          <<"B","o","n","j","o","u","r"," ","{","n","a","m","e","}",","," ","v","o","t","r","e"," ",
            "p","r","o","b","l","u00E8","m","e"," ","{","t","i","c","k","e","t","I","d","}"," ","a",
            " ","u00E9","t","u00E9"," ","r","e","u00E7","u","."," ","N","o","u","s"," ","l","'","e",
            "x","a","m","i","n","e","r","o","n","s"," ","b","i","e","n","t","u00F4","t","."," ","S",
            "u","i","v","i",":"," ","h","t","t","p","s",":","/","/","c","e","s","-","f","r","o","n",
            "t","e","n","d","-","z","e","t","a",".","v","e","r","c","e","l",".","a","p","p","/","f",
            "o","l","l","o","w","u","p","?","i","d","=","{","t","i","c","k","e","t","I","d","}">>
      @@ L_kinyarwanda :>
          <<"M","w","a","r","a","m","u","t","s","e"," ","{","n","a","m","e","}",","," ","i","k","i",
            "b","a","z","o"," ","{","t","i","c","k","e","t","I","d","}"," ","c","y","a","k","i","r",
            "i","w","e","."," ","T","u","z","a","c","y","a","s","u","z","u","m","a"," ","v","u","b",
            "a","."," ","K","u","r","i","k","i","r","a","n","a",":"," ","h","t","t","p","s",":","/",
            "/","c","e","s","-","f","r","o","n","t","e","n","d","-","z","e","t","a",".","v","e","r",
            "c","e","l",".","a","p","p","/","f","o","l","l","o","w","u","p","?","i","d","=","{","t",
            "i","c","k","e","t","I","d","}">>
    )
    @@ K_resolved :> (
      L_english :>
          <<"H","i"," ","{","n","a","m","e","}",","," ","y","o","u","r"," ","i","s","s","u","e"," ",
            "{","t","i","c","k","e","t","I","d","}"," ","h","a","s"," ","b","e","e","n"," ","r","e",
            "s","o","l","v","e","d","!"," ","V","i","e","w"," ","d","e","t","a","i","l","s",":"," ",
            "h","t","t","p","s",":","/","/","c","e","s","-","f","r","o","n","t","e","n","d","-","z",
            "e","t","a",".","v","e","r","c","e","l",".","a","p","p","/","f","o","l","l","o","w","u",
            "p","?","i","d","=","{","t","i","c","k","e","t","I","d","}">>
      @@ L_french :>
          <<"B","o","n","j","o","u","r"," ","{","n","a","m","e","}",","," ","v","o","t","r","e"," ",
            "p","r","o","b","l","u00E8","m","e"," ","{","t","i","c","k","e","t","I","d","}"," ","a",
            " ","u00E9","t","u00E9"," ","r","u00E9","s","o","l","u","!"," ","D","u00E9","t","a","i",
            "l","s",":"," ","h","t","t","p","s",":","/","/","c","e","s","-","f","r","o","n","t","e",
            "n","d","-","z","e","t","a",".","v","e","r","c","e","l",".","a","p","p","/","f","o","l",
            "l","o","w","u","p","?","i","d","=","{","t","i","c","k","e","t","I","d","}">>
      @@ L_kinyarwanda :>
          <<"M","w","a","r","a","m","u","t","s","e"," ","{","n","a","m","e","}",","," ","i","k","i",
            "b","a","z","o"," ","{","t","i","c","k","e","t","I","d","}"," ","c","y","a","k","e","m",
            "u","w","e","!"," ","I","b","i","s","o","b","a","n","u","r","a",":"," ","h","t","t","p",
            "s",":","/","/","c","e","s","-","f","r","o","n","t","e","n","d","-","z","e","t","a",".",
            "v","e","r","c","e","l",".","a","p","p","/","f","o","l","l","o","w","u","p","?","i","d",
            "=","{","t","i","c","k","e","t","I","d","}">>
    )
    @@ K_escalated :> (
      L_english :>
          <<"H","i"," ","{","n","a","m","e","}",","," ","y","o","u","r"," ","i","s","s","u","e"," ",
            "{","t","i","c","k","e","t","I","d","}"," ","h","a","s"," ","b","e","e","n"," ","e","s",
            "c","a","l","a","t","e","d"," ","t","o"," ","{","e","s","c","a","l","a","t","e","d","T",
            "o","}","."," ","T","r","a","c","k",":"," ","h","t","t","p","s",":","/","/","c","e","s",
            "-","f","r","o","n","t","e","n","d","-","z","e","t","a",".","v","e","r","c","e","l",".",
            "a","p","p","/","f","o","l","l","o","w","u","p","?","i","d","=","{","t","i","c","k","e",
            "t","I","d","}">>
      @@ L_french :>
          <<"B","o","n","j","o","u","r"," ","{","n","a","m","e","}",","," ","v","o","t","r","e"," ",
            "p","r","o","b","l","u00E8","m","e"," ","{","t","i","c","k","e","t","I","d","}"," ","a",
            " ","u00E9","t","u00E9"," ","e","s","c","a","l","a","d","u00E9"," ","u00E0"," ","{","e",
            "s","c","a","l","a","t","e","d","T","o","}","."," ","S","u","i","v","i",":"," ","h","t",
            "t","p","s",":","/","/","c","e","s","-","f","r","o","n","t","e","n","d","-","z","e","t",
            "a",".","v","e","r","c","e","l",".","a","p","p","/","f","o","l","l","o","w","u","p","?",
            "i","d","=","{","t","i","c","k","e","t","I","d","}">>
      @@ L_kinyarwanda :>
          <<"M","w","a","r","a","m","u","t","s","e"," ","{","n","a","m","e","}",","," ","i","k","i",
            "b","a","z","o"," ","{","t","i","c","k","e","t","I","d","}"," ","c","y","o","h","e","r",
            "e","j","w","e"," ","k","u","r","i"," ","{","e","s","c","a","l","a","t","e","d","T","o",
            "}","."," ","K","u","r","i","k","i","r","a","n","a",":"," ","h","t","t","p","s",":","/",
            "/","c","e","s","-","f","r","o","n","t","e","n","d","-","z","e","t","a",".","v","e","r",
            "c","e","l",".","a","p","p","/","f","o","l","l","o","w","u","p","?","i","d","=","{","t",
            "i","c","k","e","t","I","d","}">>
    )
    @@ K_assigned :> (
      L_english :>
          <<"H","i"," ","{","n","a","m","e","}",","," ","y","o","u","r"," ","i","s","s","u","e"," ",
            "{","t","i","c","k","e","t","I","d","}"," ","h","a","s"," ","b","e","e","n"," ","a","s",
            "s","i","g","n","e","d"," ","t","o"," ","{","a","s","s","i","g","n","e","d","T","o","}",
            "."," ","T","r","a","c","k",":"," ","h","t","t","p","s",":","/","/","c","e","s","-","f",
            "r","o","n","t","e","n","d","-","z","e","t","a",".","v","e","r","c","e","l",".","a","p",
            "p","/","f","o","l","l","o","w","u","p","?","i","d","=","{","t","i","c","k","e","t","I",
            "d","}">>
      @@ L_french :>
          <<"B","o","n","j","o","u","r"," ","{","n","a","m","e","}",","," ","v","o","t","r","e"," ",
            "p","r","o","b","l","u00E8","m","e"," ","{","t","i","c","k","e","t","I","d","}"," ","a",
            " ","u00E9","t","u00E9"," ","a","s","s","i","g","n","u00E9"," ","u00E0"," ","{","a","s",
            "s","i","g","n","e","d","T","o","}","."," ","S","u","i","v","i",":"," ","h","t","t","p",
            "s",":","/","/","c","e","s","-","f","r","o","n","t","e","n","d","-","z","e","t","a",".",
            "v","e","r","c","e","l",".","a","p","p","/","f","o","l","l","o","w","u","p","?","i","d",
            "=","{","t","i","c","k","e","t","I","d","}">>
      @@ L_kinyarwanda :>
          <<"M","w","a","r","a","m","u","t","s","e"," ","{","n","a","m","e","}",","," ","i","k","i",
            "b","a","z","o"," ","{","t","i","c","k","e","t","I","d","}"," ","c","y","a","h","a","w",
            "e"," ","{","a","s","s","i","g","n","e","d","T","o","}","."," ","K","u","r","i","k","i",
            "r","a","n","a",":"," ","h","t","t","p","s",":","/","/","c","e","s","-","f","r","o","n",
            "t","e","n","d","-","z","e","t","a",".","v","e","r","c","e","l",".","a","p","p","/","f",
            "o","l","l","o","w","u","p","?","i","d","=","{","t","i","c","k","e","t","I","d","}">>
    )
    @@ K_closed :> (
      L_english :>
          <<"H","i"," ","{","n","a","m","e","}",","," ","y","o","u","r"," ","i","s","s","u","e"," ",
            "{","t","i","c","k","e","t","I","d","}"," ","h","a","s"," ","b","e","e","n"," ","c","l",
            "o","s","e","d","."," ","I","f"," ","y","o","u"," ","n","e","e","d"," ","h","e","l","p",
            ","," ","c","o","n","t","a","c","t"," ","u","s","."," ","D","e","t","a","i","l","s",":",
            " ","h","t","t","p","s",":","/","/","c","e","s","-","f","r","o","n","t","e","n","d","-",
            "z","e","t","a",".","v","e","r","c","e","l",".","a","p","p","/","f","o","l","l","o","w",
            "u","p","?","i","d","=","{","t","i","c","k","e","t","I","d","}">>
      @@ L_french :>
          <<"B","o","n","j","o","u","r"," ","{","n","a","m","e","}",","," ","v","o","t","r","e"," ",
            "p","r","o","b","l","u00E8","m","e"," ","{","t","i","c","k","e","t","I","d","}"," ","a",
            " ","u00E9","t","u00E9"," ","f","e","r","m","u00E9","."," ","S","i"," ","v","o","u","s",
            " ","a","v","e","z"," ","b","e","s","o","i","n"," ","d","'","a","i","d","e",","," ","c",
            "o","n","t","a","c","t","e","z","-","n","o","u","s","."," ","D","u00E9","t","a","i","l",
            "s",":"," ","h","t","t","p","s",":","/","/","c","e","s","-","f","r","o","n","t","e","n",
            "d","-","z","e","t","a",".","v","e","r","c","e","l",".","a","p","p","/","f","o","l","l",
            "o","w","u","p","?","i","d","=","{","t","i","c","k","e","t","I","d","}">>
      @@ L_kinyarwanda :>
          <<"M","w","a","r","a","m","u","t","s","e"," ","{","n","a","m","e","}",","," ","i","k","i",
            "b","a","z","o"," ","{","t","i","c","k","e","t","I","d","}"," ","c","y","a","f","u","n",
            "g","u","w","e","."," ","N","i","b","a"," ","u","k","e","n","e","y","e"," ","u","b","u",
            "f","a","s","h","a",","," ","t","u","b","a","b","a","r","i","r","e","."," ","I","b","i",
            "s","o","b","a","n","u","r","a",":"," ","h","t","t","p","s",":","/","/","c","e","s","-",
            "f","r","o","n","t","e","n","d","-","z","e","t","a",".","v","e","r","c","e","l",".","a",
            "p","p","/","f","o","l","l","o","w","u","p","?","i","d","=","{","t","i","c","k","e","t",
            "I","d","}">>
    )
    @@ K_in_progress :> (
      L_english :>
          <<"H","i"," ","{","n","a","m","e","}",","," ","w","e","'","r","e"," ","w","o","r","k","i",
            "n","g"," ","o","n"," ","y","o","u","r"," ","i","s","s","u","e"," ","{","t","i","c","k",
            "e","t","I","d","}","."," ","W","e","'","l","l"," ","u","p","d","a","t","e"," ","y","o",
            "u"," ","s","o","o","n","."," ","T","r","a","c","k",":"," ","h","t","t","p","s",":","/",
            "/","c","e","s","-","f","r","o","n","t","e","n","d","-","z","e","t","a",".","v","e","r",
            "c","e","l",".","a","p","p","/","f","o","l","l","o","w","u","p","?","i","d","=","{","t",
            "i","c","k","e","t","I","d","}">>
      @@ L_french :>
          <<"B","o","n","j","o","u","r"," ","{","n","a","m","e","}",","," ","n","o","u","s"," ","t",
            "r","a","v","a","i","l","l","o","n","s"," ","s","u","r"," ","v","o","t","r","e"," ","p",
            "r","o","b","l","u00E8","m","e"," ","{","t","i","c","k","e","t","I","d","}","."," ","N",
            "o","u","s"," ","v","o","u","s"," ","t","i","e","n","d","r","o","n","s"," ","i","n","f",
            "o","r","m","u00E9","."," ","S","u","i","v","i",":"," ","h","t","t","p","s",":","/","/",
            "c","e","s","-","f","r","o","n","t","e","n","d","-","z","e","t","a",".","v","e","r","c",
            "e","l",".","a","p","p","/","f","o","l","l","o","w","u","p","?","i","d","=","{","t","i",
            "c","k","e","t","I","d","}">>
      @@ L_kinyarwanda :>
          <<"M","w","a","r","a","m","u","t","s","e"," ","{","n","a","m","e","}",","," ","d","u","k",
            "o","r","a"," ","k","u"," ","k","i","b","a","z","o"," ","{","t","i","c","k","e","t","I",
            "d","}","."," ","T","u","z","a","g","u","f","a","s","h","a"," ","a","m","a","k","u","r",
            "u"," ","v","u","b","a","."," ","K","u","r","i","k","i","r","a","n","a",":"," ","h","t",
            "t","p","s",":","/","/","c","e","s","-","f","r","o","n","t","e","n","d","-","z","e","t",
            "a",".","v","e","r","c","e","l",".","a","p","p","/","f","o","l","l","o","w","u","p","?",
            "i","d","=","{","t","i","c","k","e","t","I","d","}">>
    )

\* templates[status][language].subject of the email template store
emailSubjects ==
    K_received :> (
      L_english :>
          <<"I","s","s","u","e"," ","{","t","i","c","k","e","t","I","d","}"," ","R","e","c","e","i",
            "v","e","d"," ","-"," ","C","E","S"," ","S","u","p","p","o","r","t">>
      @@ L_french :>
          <<"P","r","o","b","l","u00E8","m","e"," ","{","t","i","c","k","e","t","I","d","}"," ","R",
            "e","u00E7","u"," ","-"," ","S","u","p","p","o","r","t"," ","C","E","S">>
      @@ L_kinyarwanda :>
          <<"I","k","i","b","a","z","o"," ","{","t","i","c","k","e","t","I","d","}"," ","C","y","a",
            "k","i","r","i","w","e"," ","-"," ","U","b","u","f","a","s","h","a"," ","b","w","a"," ",
            "C","E","S">>
    )
    @@ K_resolved :> (
      L_english :>
          <<"I","s","s","u","e"," ","{","t","i","c","k","e","t","I","d","}"," ","R","e","s","o","l",
            "v","e","d"," ","-"," ","C","E","S"," ","S","u","p","p","o","r","t">>
      @@ L_french :>
          <<"P","r","o","b","l","u00E8","m","e"," ","{","t","i","c","k","e","t","I","d","}"," ","R",
            "u00E9","s","o","l","u"," ","-"," ","S","u","p","p","o","r","t"," ","C","E","S">>
      @@ L_kinyarwanda :>
          <<"I","k","i","b","a","z","o"," ","{","t","i","c","k","e","t","I","d","}"," ","C","y","a",
            "k","e","m","u","w","e"," ","-"," ","U","b","u","f","a","s","h","a"," ","b","w","a"," ",
            "C","E","S">>
    )
    @@ K_escalated :> (
      L_english :>
          <<"I","s","s","u","e"," ","{","t","i","c","k","e","t","I","d","}"," ","E","s","c","a","l",
            "a","t","e","d"," ","t","o"," ","{","e","s","c","a","l","a","t","e","d","T","o","}"," ",
            "-"," ","C","E","S"," ","S","u","p","p","o","r","t">>
      @@ L_french :>
          <<"P","r","o","b","l","u00E8","m","e"," ","{","t","i","c","k","e","t","I","d","}"," ","E",
            "s","c","a","l","a","d","u00E9"," ","u00E0"," ","{","e","s","c","a","l","a","t","e","d",
            "T","o","}"," ","-"," ","S","u","p","p","o","r","t"," ","C","E","S">>
      @@ L_kinyarwanda :>
          <<"I","k","i","b","a","z","o"," ","{","t","i","c","k","e","t","I","d","}"," ","C","y","o",
            "h","e","r","e","j","w","e"," ","k","u","r","i"," ","{","e","s","c","a","l","a","t","e",
            "d","T","o","}"," ","-"," ","U","b","u","f","a","s","h","a"," ","b","w","a"," ","C","E",
            "S">>
    )
    @@ K_assigned :> (
      L_english :>
          <<"I","s","s","u","e"," ","{","t","i","c","k","e","t","I","d","}"," ","A","s","s","i","g",
            "n","e","d"," ","t","o"," ","{","a","s","s","i","g","n","e","d","T","o","}"," ","-"," ",
            "C","E","S"," ","S","u","p","p","o","r","t">>
      @@ L_french :>
          <<"P","r","o","b","l","u00E8","m","e"," ","{","t","i","c","k","e","t","I","d","}"," ","A",
            "s","s","i","g","n","u00E9"," ","u00E0"," ","{","a","s","s","i","g","n","e","d","T","o",
            "}"," ","-"," ","S","u","p","p","o","r","t"," ","C","E","S">>
      @@ L_kinyarwanda :>
          <<"I","k","i","b","a","z","o"," ","{","t","i","c","k","e","t","I","d","}"," ","C","y","a",
            "h","a","w","e"," ","{","a","s","s","i","g","n","e","d","T","o","}"," ","-"," ","U","b",
            "u","f","a","s","h","a"," ","b","w","a"," ","C","E","S">>
    )
    @@ K_closed :> (
      L_english :>
          <<"I","s","s","u","e"," ","{","t","i","c","k","e","t","I","d","}"," ","C","l","o","s","e",
            "d"," ","-"," ","C","E","S"," ","S","u","p","p","o","r","t">>
      @@ L_french :>
          <<"P","r","o","b","l","u00E8","m","e"," ","{","t","i","c","k","e","t","I","d","}"," ","F",
            "e","r","m","u00E9"," ","-"," ","S","u","p","p","o","r","t"," ","C","E","S">>
      @@ L_kinyarwanda :>
          <<"I","k","i","b","a","z","o"," ","{","t","i","c","k","e","t","I","d","}"," ","C","y","a",
            "f","u","n","g","u","w","e"," ","-"," ","U","b","u","f","a","s","h","a"," ","b","w","a",
            " ","C","E","S">>
    )
    @@ K_in_progress :> (
      L_english :>
          <<"I","s","s","u","e"," ","{","t","i","c","k","e","t","I","d","}"," ","I","n"," ","P","r",
            "o","g","r","e","s","s"," ","-"," ","C","E","S"," ","S","u","p","p","o","r","t">>
      @@ L_french :>
          <<"P","r","o","b","l","u00E8","m","e"," ","{","t","i","c","k","e","t","I","d","}"," ","E",
            "n"," ","C","o","u","r","s"," ","-"," ","S","u","p","p","o","r","t"," ","C","E","S">>
      @@ L_kinyarwanda :>
          <<"I","k","i","b","a","z","o"," ","{","t","i","c","k","e","t","I","d","}"," ","K","i","r",
            "a","k","o","r","e","s","h","a"," ","-"," ","U","b","u","f","a","s","h","a"," ","b","w",
            "a"," ","C","E","S">>
    )

\* ------------------------------------------------------------------------
\* Template store operations
\* ------------------------------------------------------------------------

Languages == {L_english, L_french, L_kinyarwanda}

\* emailTemplates.getAvailableStatuses / smsTemplates.getAvailableStatuses
getAvailableStatuses == DOMAIN emailSubjects

\* getAvailableLanguages
getAvailableLanguages == Languages

\* Property names every object inherits and a lower-cased key can spell:
\* obj['constructor'] is the Object function, obj['__proto__'] is
\* Object.prototype (null on Object.prototype itself)
N_constructor == <<"c","o","n","s","t","r","u","c","t","o","r">>
N_proto == <<"_","_","p","r","o","t","o","_","_">>
ObjectPrototypeProps == {N_constructor, N_proto}

\* lower-case property names of the Object function (templates.constructor)
\* that hold a truthy value, own or inherited
N_prototype == <<"p","r","o","t","o","t","y","p","e">>
N_name == <<"n","a","m","e">>
N_keys == <<"k","e","y","s">>
ObjectFunctionProps == {N_constructor, N_proto, N_prototype, N_name, N_keys}

\* what templates[status][language] finds without a template of its own:
\* the truthy inherited property it returns instead, if any
InheritedHit(normalizedStatus, normalizedLanguage, ownStatuses) ==
    IF normalizedStatus \in ownStatuses THEN normalizedLanguage \in ObjectPrototypeProps
    ELSE IF normalizedStatus = N_constructor THEN normalizedLanguage \in ObjectFunctionProps
    ELSE IF normalizedStatus = N_proto THEN normalizedLanguage = N_constructor
    ELSE FALSE

\* smsTemplates.getTemplate(status, language), both arguments JavaScript
\* values: [raised] when a method is called on a value that has none,
\* [found] FALSE for the null result
smsGetTemplate(status, language) ==
    LET Lookup(templates) ==
            LET normalizedStatus == replaceSeparators(toLowerCase(status.s))
                normalizedLanguage == toLowerCase(language.s)
                hasStatus == status.t = "string" /\ normalizedStatus \in DOMAIN templates
            IN  IF hasStatus /\ language.t = "string"
                   /\ normalizedLanguage \in DOMAIN templates[normalizedStatus]
                THEN [raised |-> FALSE, found |-> TRUE, inherited |-> FALSE,
                      message |-> templates[normalizedStatus][normalizedLanguage]]
                ELSE IF status.t = "string" /\ language.t = "string"
                        /\ InheritedHit(normalizedStatus, normalizedLanguage, DOMAIN templates)
                THEN [raised |-> FALSE, found |-> TRUE, inherited |-> TRUE, message |-> <<>>]
                ELSE IF hasStatus
                THEN [raised |-> FALSE, found |-> TRUE, inherited |-> FALSE,
                      message |-> templates[normalizedStatus][L_english]]
                ELSE [raised |-> FALSE, found |-> FALSE, inherited |-> FALSE, message |-> <<>>]
    IN  IF (~IsNullish(status) /\ status.t # "string") \/ (~IsNullish(language) /\ language.t # "string")
        THEN [raised |-> TRUE, found |-> FALSE, inherited |-> FALSE, message |-> <<>>]
        ELSE Lookup(smsTemplates)

\* emailTemplates.getTemplate(status, language): the subject skeleton
emailGetTemplateFrom(store, status, language) ==
    LET Lookup(templates) ==
            LET normalizedStatus == replaceSeparators(toLowerCase(status.s))
                normalizedLanguage == toLowerCase(language.s)
                hasStatus == status.t = "string" /\ normalizedStatus \in DOMAIN templates
            IN  IF hasStatus /\ language.t = "string"
                   /\ normalizedLanguage \in DOMAIN templates[normalizedStatus]
                THEN [raised |-> FALSE, found |-> TRUE, inherited |-> FALSE,
                      subject |-> templates[normalizedStatus][normalizedLanguage]]
                ELSE IF status.t = "string" /\ language.t = "string"
                        /\ InheritedHit(normalizedStatus, normalizedLanguage, DOMAIN templates)
                THEN [raised |-> FALSE, found |-> TRUE, inherited |-> TRUE, subject |-> <<>>]
                ELSE IF hasStatus
                THEN [raised |-> FALSE, found |-> TRUE, inherited |-> FALSE,
                      subject |-> templates[normalizedStatus][L_english]]
                ELSE [raised |-> FALSE, found |-> FALSE, inherited |-> FALSE, subject |-> <<>>]
    IN  IF (~IsNullish(status) /\ status.t # "string") \/ (~IsNullish(language) /\ language.t # "string")
        THEN [raised |-> TRUE, found |-> FALSE, inherited |-> FALSE, subject |-> <<>>]
        ELSE Lookup(store)

emailGetTemplate(status, language) == emailGetTemplateFrom(emailSubjects, status, language)

\* the placeholders, as code-unit sequences
P_name == <<"{","n","a","m","e","}">>
P_ticketId == <<"{","t","i","c","k","e","t","I","d","}">>
P_issueTitle == <<"{","i","s","s","u","e","T","i","t","l","e","}">>
P_assignedTo == <<"{","a","s","s","i","g","n","e","d","T","o","}">>
P_escalatedTo == <<"{","e","s","c","a","l","a","t","e","d","T","o","}">>
P_responseMessage == <<"{","r","e","s","p","o","n","s","e","M","e","s","s","a","g","e","}">>
P_currentDate == <<"{","c","u","r","r","e","n","t","D","a","t","e","}">>

\* new Date().toLocaleDateString(): one fixed date of the run
currentDate == <<"1","/","2","/","2","0","2","5">>

\* String(v) as `${v}` and the template-literal replacements give it: the
\* text of a value used as a replacement string
ToText(v) ==
    CASE v.t = "string" -> v.s
      [] v.t = "number" -> <<"5">>
      [] v.t = "null" -> <<"n","u","l","l">>
      [] OTHER -> <<"u","n","d","e","f","i","n","e","d">>

\* data.field || fallback
OrElse(v, fallback) == IF Truthy(v) THEN ToText(v) ELSE fallback

\* the for-loop over Object.entries(replacements): one global replace per
\* placeholder, in insertion order, each on the result of the one before
RECURSIVE applyReplacements(_, _)
applyReplacements(message, replacements) ==
    IF replacements = <<>> THEN message
    ELSE applyReplacements(replaceAll(message, Head(replacements)[1], Head(replacements)[2]),
                           Tail(replacements))

\* ------------------------------------------------------------------------
\* validators.js
\* ------------------------------------------------------------------------

MaxTicketIdLen == 50
MaxNameLen == 100
MinPhoneDigits == 7
MaxPhoneDigits == 15
MaxIssueTitleLen == 200
MaxResponseMessageLen == 2000
MaxSmsParts == 5
PlainPartLen == 153

\* /^[^\s@]+@[^\s@]+\.[^\s@]+$/
isValidEmail(email) ==
    LET ats == {i \in 1..Len(email) : email[i] = "@"}
    IN  /\ \A i \in 1..Len(email) : email[i] \notin SpaceChars
        /\ Cardinality(ats) = 1
        /\ LET at == CHOOSE i \in ats : TRUE
           IN  /\ at > 1
               /\ \E d \in (at + 2)..(Len(email) - 1) : email[d] = "."

\* /^[A-Za-z0-9\-_]{1,50}$/
isValidTicketId(ticketId) ==
    /\ Len(ticketId) \in 1..MaxTicketIdLen
    /\ \A i \in 1..Len(ticketId) : ticketId[i] \in (AsciiLetters \cup DigitChars \cup {"-", "_"})

\* /^[A-Za-z\s\-']{1,100}$/
isValidName(name) ==
    /\ Len(name) \in 1..MaxNameLen
    /\ \A i \in 1..Len(name) : name[i] \in (AsciiLetters \cup SpaceChars \cup {"-", "'"})

\* the keys of languageMap
A_en == <<"e","n">>
A_fr == <<"f","r">>
A_rw == <<"r","w">>
A_kin == <<"k","i","n">>
A_francais == <<"f","r","a","n","u00E7","a","i","s">>
languageMap == {A_en, A_fr, A_rw, A_kin, A_francais}

isValidLanguage(language) ==
    LET normalizedLanguage == toLowerCase(language)
    IN  normalizedLanguage \in getAvailableLanguages \/ normalizedLanguage \in languageMap

isValidSubject(subject) ==
    replaceSeparators(toLowerCase(subject)) \in getAvailableStatuses

isValidPhoneNumber(phoneNumber) ==
    LET cleaned == stripNonDigits(phoneNumber)
    IN  Len(cleaned) >= MinPhoneDigits /\ Len(cleaned) <= MaxPhoneDigits

normalizePhoneNumber(phoneNumber) == stripNonDigits(phoneNumber)

\* one required string field: "is required" / "must be a string" / the
\* format message, or nothing
requiredField(v, ok, missing, notString, badFormat) ==
    IF ~Truthy(v) THEN <<missing>>
    ELSE IF v.t # "string" THEN <<notString>>
    ELSE IF ~ok THEN <<badFormat>>
    ELSE <<>>

\* an optional name field (assignedTo, escalatedTo)
optionalName(v, notString, badFormat) ==
    IF IsNullish(v) \/ v = Str(<<>>) THEN <<>>
    ELSE IF v.t # "string" THEN <<notString>>
    ELSE IF trim(v.s) # <<>> /\ ~isValidName(trim(v.s)) THEN <<badFormat>>
    ELSE <<>>

\* an optional text field (issueTitle, responseMessage)
optionalText(v, max, notString, tooLong) ==
    IF IsNullish(v) \/ v = Str(<<>>) THEN <<>>
    ELSE IF v.t # "string" THEN <<notString>>
    ELSE IF Len(v.s) > max THEN <<tooLong>>
    ELSE <<>>

\* data.subject?.toLowerCase().replace(/[-_\s]/g, '_'): throws on a value
\* that is neither nullish nor a string
subjectKeyRaises(data) ==
    ~IsNullish(Get(data, "subject")) /\ Get(data, "subject").t # "string"

\* conditionalErrors with the rule left out
conditionalErrors_NoRule(data) == <<>>

\* the conditional requirement on assignedTo / escalatedTo
conditionalErrors(data) ==
    LET subject == replaceSeparators(toLowerCase(Get(data, "subject").s))
        isStr == Get(data, "subject").t = "string"
    IN  IF isStr /\ subject \in {K_assigned, K_escalated}
           /\ ~Truthy(Get(data, "assignedTo")) /\ ~Truthy(Get(data, "escalatedTo"))
        THEN IF subject = K_assigned
             THEN <<"assignedTo is required when subject is \"assigned\"">>
             ELSE <<"escalatedTo is required when subject is \"escalated\"">>
        ELSE <<>>

\* the checks validateEmailRequest and validateSmsRequest share: ticketId,
\* name, language, subject and the optional fields
commonErrors(data) ==
    requiredField(Get(data, "ticketId"), isValidTicketId(trim(Get(data, "ticketId").s)),
                  "ticketId is required", "ticketId must be a string",
                  "ticketId must contain only alphanumeric characters, hyphens, and underscores (1-50 characters)")
    \o requiredField(Get(data, "name"), isValidName(trim(Get(data, "name").s)),
                  "name is required", "name must be a string",
                  "name must contain only letters, spaces, hyphens, and apostrophes (1-100 characters)")
    \o requiredField(Get(data, "language"), isValidLanguage(trim(Get(data, "language").s)),
                  "language is required", "language must be a string",
                  "language must be one of: english, french, kinyarwanda")
    \o requiredField(Get(data, "subject"), isValidSubject(trim(Get(data, "subject").s)),
                  "subject is required", "subject must be a string",
                  "subject must be one of: received, resolved, escalated, assigned, closed, in_progress")
    \o optionalName(Get(data, "assignedTo"), "assignedTo must be a string",
                  "assignedTo must contain only letters, spaces, hyphens, and apostrophes (1-100 characters)")
    \o optionalName(Get(data, "escalatedTo"), "escalatedTo must be a string",
                  "escalatedTo must contain only letters, spaces, hyphens, and apostrophes (1-100 characters)")
    \o optionalText(Get(data, "issueTitle"), MaxIssueTitleLen, "issueTitle must be a string",
                  "issueTitle must be 200 characters or less")
    \o optionalText(Get(data, "responseMessage"), MaxResponseMessageLen,
                  "responseMessage must be a string",
                  "responseMessage must be 2000 characters or less")

Raised == [raised |-> TRUE, isValid |-> FALSE, errors |-> <<>>]
Verdict(errors) == [raised |-> FALSE, isValid |-> errors = <<>>, errors |-> errors]

validateEmailRequest(emailData) ==
    IF ~TruthyData(emailData) THEN Verdict(<<"Email data is required">>)
    ELSE IF subjectKeyRaises(emailData) THEN Raised
    ELSE Verdict(
        requiredField(Get(emailData, "email"), isValidEmail(trim(Get(emailData, "email").s)),
                      "email is required", "email must be a string",
                      "email must be a valid email address")
        \o commonErrors(emailData)
        \o conditionalErrors(emailData))

\* smsTemplates.getTemplateInfo(status, language, data): the message built
\* with the sample defaults and its part count at 153 code units a part.
\* status and language are JavaScript values, data an object.
D_Customer == <<"C","u","s","t","o","m","e","r">>
D_TK12345 == <<"T","K","1","2","3","4","5">>
D_Issue == <<"I","s","s","u","e">>
D_SupportTeam == <<"S","u","p","p","o","r","t"," ","T","e","a","m">>
D_Resolved == <<"R","e","s","o","l","v","e","d">>

ceilDiv(a, b) == (a + b - 1) \div b

getTemplateInfo(status, language, data) ==
    LET sampleData == << <<P_name, OrElse(Get(data, "name"), D_Customer)>>,
                         <<P_ticketId, OrElse(Get(data, "ticketId"), D_TK12345)>>,
                         <<P_issueTitle, OrElse(Get(data, "issueTitle"), D_Issue)>>,
                         <<P_assignedTo, OrElse(Get(data, "assignedTo"), D_SupportTeam)>>,
                         <<P_escalatedTo, OrElse(Get(data, "escalatedTo"), D_SupportTeam)>>,
                         <<P_responseMessage, OrElse(Get(data, "responseMessage"), D_Resolved)>>,
                         <<P_currentDate, currentDate>> >>
        Measured(message) ==
            [found |-> TRUE, totalChars |-> Len(message),
             parts |-> ceilDiv(Len(message), PlainPartLen), message |-> message]
        Info(template) ==
            IF ~template.found
            THEN [found |-> FALSE, totalChars |-> 0, parts |-> 0, message |-> <<>>]
            ELSE Measured(applyReplacements(template.message, sampleData))
    IN  Info(smsGetTemplate(status, language))

\* smsTemplates.validateTemplateLength: the error it reports, or none
validateTemplateLength(status, language, data) ==
    LET Checked(info) ==
            IF ~info.found THEN <<"Template not found">>
            ELSE IF info.parts > MaxSmsParts THEN <<"Message too long: parts (max 5 allowed)">>
            ELSE <<>>
    IN  Checked(getTemplateInfo(status, language, data))

validateSmsRequest(smsData) ==
    LET WithTemplateLength(errors) ==
            IF errors = <<>>
            THEN Verdict(validateTemplateLength(Get(smsData, "subject"),
                                                Get(smsData, "language"), smsData))
            ELSE Verdict(errors)
    IN  IF ~TruthyData(smsData) THEN Verdict(<<"SMS data is required">>)
        ELSE IF subjectKeyRaises(smsData) THEN Raised
        ELSE WithTemplateLength(
                 requiredField(Get(smsData, "phoneNumber"),
                               isValidPhoneNumber(trim(Get(smsData, "phoneNumber").s)),
                               "phoneNumber is required", "phoneNumber must be a string",
                               "phoneNumber must be a valid phone number (7-15 digits)")
                 \o commonErrors(smsData)
                 \o conditionalErrors(smsData))

\* ---- trip requests ----

MaxTripIdLen == 50
MaxDestinationLen == 100

T_trip_remaining_time ==
    <<"t","r","i","p","_","r","e","m","a","i","n","i","n","g","_","t","i","m","e">>
T_trip_arrival_notice ==
    <<"t","r","i","p","_","a","r","r","i","v","a","l","_","n","o","t","i","c","e">>

isValidTripNotificationType(notificationType) ==
    replaceSeparators(toLowerCase(notificationType)) \in {T_trip_remaining_time, T_trip_arrival_notice}

\* /^[A-Za-z\s\-'.,()]{1,100}$/
isValidDestinationName(destinationName) ==
    /\ Len(destinationName) \in 1..MaxDestinationLen
    /\ \A i \in 1..Len(destinationName) :
          destinationName[i] \in (AsciiLetters \cup SpaceChars \cup {"-", "'", ".", ",", "(", ")"})

\* pieces of the remaining-time pattern, each from a set of start positions
\* to the set of positions where the piece can end
digitsThen(s, from) ==
    {j \in 2..(Len(s) + 1) : \E i \in from : i < j /\ \A k \in i..(j - 1) : s[k] \in DigitChars}
spacesThen(s, from) ==
    {j \in 2..(Len(s) + 1) : \E i \in from : i < j /\ \A k \in i..(j - 1) : s[k] \in SpaceChars}
wordThen(s, from, words) ==
    {j \in 1..(Len(s) + 1) : \E i \in from, w \in words :
         j = i + Len(w) /\ SubSeq(toLowerCase(s), i, j - 1) = w}
optionalThen(from, then) == from \cup then

W_hour == <<"h","o","u","r">>
W_minute == <<"m","i","n","u","t","e">>
W_day == <<"d","a","y">>
W_week == <<"w","e","e","k">>
W_and == <<"a","n","d">>
W_s == <<"s">>

\* /^(\d+\s+(hour|minute|day|week)s?(\s+and\s+\d+\s+(hour|minute)s?)?|\d+\s+(hour|minute|day|week)s?)$/i
isValidRemainingTime(remainingTime) ==
    LET s == remainingTime
        unit == wordThen(s, spacesThen(s, digitsThen(s, {1})), {W_hour, W_minute, W_day, W_week})
        first == optionalThen(unit, wordThen(s, unit, {W_s}))
        andWord == spacesThen(s, wordThen(s, spacesThen(s, first), {W_and}))
        unit2 == wordThen(s, spacesThen(s, digitsThen(s, andWord)), {W_hour, W_minute})
        second == optionalThen(unit2, wordThen(s, unit2, {W_s}))
    IN  (Len(s) + 1) \in (first \cup second)

validateTripRequest(tripData) ==
    IF ~TruthyData(tripData) THEN Verdict(<<"Trip data is required">>)
    ELSE LET email == Get(tripData, "email")
             phoneNumber == Get(tripData, "phoneNumber")
             notificationType == Get(tripData, "notificationType")
             remainingTime == Get(tripData, "remainingTime")
         IN  Verdict(
        (IF ~Truthy(email) /\ ~Truthy(phoneNumber)
         THEN <<"Either email or phoneNumber is required">> ELSE <<>>)
        \o (IF ~Truthy(email) THEN <<>>
            ELSE IF email.t # "string" THEN <<"email must be a string">>
            ELSE IF ~isValidEmail(trim(email.s)) THEN <<"email must be a valid email address">>
            ELSE <<>>)
        \o (IF ~Truthy(phoneNumber) THEN <<>>
            ELSE IF phoneNumber.t # "string" THEN <<"phoneNumber must be a string">>
            ELSE IF ~isValidPhoneNumber(trim(phoneNumber.s))
            THEN <<"phoneNumber must be a valid phone number (7-15 digits)">>
            ELSE <<>>)
        \o requiredField(Get(tripData, "name"), isValidName(trim(Get(tripData, "name").s)),
                  "name is required", "name must be a string",
                  "name must contain only letters, spaces, hyphens, and apostrophes (1-100 characters)")
        \o requiredField(Get(tripData, "language"), isValidLanguage(trim(Get(tripData, "language").s)),
                  "language is required", "language must be a string",
                  "language must be one of: english, french, kinyarwanda")
        \o requiredField(notificationType, isValidTripNotificationType(trim(notificationType.s)),
                  "notificationType is required", "notificationType must be a string",
                  "notificationType must be one of: trip_remaining_time, trip_arrival_notice")
        \o requiredField(Get(tripData, "destinationName"),
                  isValidDestinationName(trim(Get(tripData, "destinationName").s)),
                  "destinationName is required", "destinationName must be a string",
                  "destinationName must contain only letters, spaces, hyphens, apostrophes, and common punctuation (1-100 characters)")
        \o (IF notificationType = Str(T_trip_remaining_time)
            THEN requiredField(remainingTime, isValidRemainingTime(trim(remainingTime.s)),
                  "remainingTime is required for trip_remaining_time notifications",
                  "remainingTime must be a string",
                  "remainingTime must be in a valid format (e.g., \"2 hours\", \"30 minutes\", \"1 hour 30 minutes\")")
            ELSE <<>>)
        \o optionalText(Get(tripData, "tripId"), MaxTripIdLen, "tripId must be a string",
                  "tripId must be 50 characters or less"))

\* ------------------------------------------------------------------------
\* smsService.js / emailService.js: helpers
\* ------------------------------------------------------------------------

\* the 'fran..ais' case label as the service files spell it
A_francaisService == <<"f","r","a","n","u221A","u00DF","a","i","s">>

\* normalizeLanguage(language): language?.toLowerCase().trim() throws on a
\* value that is neither nullish nor a string
normalizeLanguage(language) ==
    IF ~IsNullish(language) /\ language.t # "string"
    THEN [raised |-> TRUE, lang |-> L_english]
    ELSE LET lang == trim(toLowerCase(language.s))
         IN  [raised |-> FALSE,
              lang |-> IF language.t # "string" THEN L_english
                       ELSE IF lang \in {L_french, A_fr, A_francaisService} THEN L_french
                       ELSE IF lang \in {L_kinyarwanda, A_rw, A_kin} THEN L_kinyarwanda
                       ELSE L_english]

D_NA == <<"N","/","A">>
D_YourIssue == <<"Y","o","u","r"," ","I","s","s","u","e">>

\* SmsService.buildSmsMessage(template, data)
buildSmsMessage(templateMessage, data) ==
    applyReplacements(templateMessage,
        << <<P_name, OrElse(Get(data, "name"), D_Customer)>>,
           <<P_ticketId, OrElse(Get(data, "ticketId"), D_NA)>>,
           <<P_issueTitle, OrElse(Get(data, "issueTitle"), D_YourIssue)>>,
           <<P_assignedTo, OrElse(Get(data, "assignedTo"), <<>>)>>,
           <<P_escalatedTo, OrElse(Get(data, "escalatedTo"), <<>>)>>,
           <<P_responseMessage, OrElse(Get(data, "responseMessage"), <<>>)>>,
           <<P_currentDate, currentDate>> >>)

\* determineMessageType that looks at the language only
determineMessageType_LanguageOnly(message, language) ==
    IF language = L_kinyarwanda THEN "unicode" ELSE "plain"

\* SmsService.determineMessageType(message, language)
determineMessageType(message, language) ==
    LET hasUnicode == \E i \in 1..Len(message) : message[i] \in NonAsciiChars
    IN  IF language = L_kinyarwanda \/ hasUnicode THEN "unicode" ELSE "plain"

UnicodePartLen == 67

\* SmsService.getMessageInfo(message, type)
getMessageInfo(message, type) ==
    LET Info(totalChars, maxCharsPerPart) ==
            [totalChars |-> totalChars,
             maxCharsPerPart |-> maxCharsPerPart,
             parts |-> ceilDiv(totalChars, maxCharsPerPart),
             isMultiPart |-> ceilDiv(totalChars, maxCharsPerPart) > 1,
             remainingChars |-> maxCharsPerPart - (totalChars % maxCharsPerPart)]
    IN  Info(Len(message), IF type = "unicode" THEN UnicodePartLen ELSE PlainPartLen)

\* buildEmailSubject that fills in the assignee whatever the status
buildEmailSubject_AnyStatus(status, ticketId, templateSubject, assignedTo, escalatedTo) ==
    LET s1 == replaceFirst(templateSubject, P_ticketId, ToText(ticketId))
        s2 == IF Truthy(assignedTo) THEN replaceFirst(s1, P_assignedTo, ToText(assignedTo)) ELSE s1
    IN  IF Truthy(escalatedTo) /\ status = Str(K_escalated)
        THEN replaceFirst(s2, P_escalatedTo, ToText(escalatedTo)) ELSE s2

\* EmailService.buildEmailSubject(status, ticketId, template, assignedTo,
\* escalatedTo): string patterns, so the first occurrence only
buildEmailSubject(status, ticketId, templateSubject, assignedTo, escalatedTo) ==
    LET s1 == replaceFirst(templateSubject, P_ticketId, ToText(ticketId))
        s2 == IF Truthy(assignedTo) /\ status \in {Str(K_assigned), Str(K_escalated)}
              THEN replaceFirst(s1, P_assignedTo, ToText(assignedTo)) ELSE s1
    IN  IF Truthy(escalatedTo) /\ status = Str(K_escalated)
        THEN replaceFirst(s2, P_escalatedTo, ToText(escalatedTo)) ELSE s2

\* ------------------------------------------------------------------------
\* Channel transports (external): what one call can come to
\* ------------------------------------------------------------------------

\* axios.request: a response, an error status, no response, a request
\* that could not be built
SmsOutcomes == {"ok", "rejected", "noResponse", "requestError"}
\* sgMail.send: accepted, rejected with a response body, no response
EmailOutcomes == {"ok", "rejected", "noResponse"}

\* templates.assigned.english.body
B_assigned_english ==
    <<"H","e","l","l","o"," ","{","n","a","m","e","}",",","\n","\n","Y","o","u","r"," ","i","s",
      "s","u","e"," ","h","a","s"," ","b","e","e","n"," ","a","s","s","i","g","n","e","d"," ",
      "t","o"," ","a"," ","s","p","e","c","i","a","l","i","s","t"," ","f","o","r"," ","r","e",
      "s","o","l","u","t","i","o","n",".","\n","\n","I","s","s","u","e"," ","D","e","t","a","i",
      "l","s",":","\n","-"," ","T","i","c","k","e","t"," ","I","D",":"," ","{","t","i","c","k",
      "e","t","I","d","}","\n","-"," ","I","s","s","u","e"," ","T","i","t","l","e",":"," ","{",
      "i","s","s","u","e","T","i","t","l","e","}","\n","-"," ","S","t","a","t","u","s",":"," ",
      "A","s","s","i","g","n","e","d","\n","-"," ","A","s","s","i","g","n","e","d"," ","t","o",
      ":"," ","{","a","s","s","i","g","n","e","d","T","o","}","\n","-"," ","A","s","s","i","g",
      "n","m","e","n","t"," ","D","a","t","e",":"," ","{","c","u","r","r","e","n","t","D","a",
      "t","e","}","\n","\n","{","a","s","s","i","g","n","e","d","T","o","}"," ","w","i","l","l",
      " ","b","e"," ","h","a","n","d","l","i","n","g"," ","y","o","u","r"," ","c","a","s","e",
      " ","a","n","d"," ","w","i","l","l"," ","c","o","n","t","a","c","t"," ","y","o","u"," ",
      "s","o","o","n"," ","w","i","t","h"," ","u","p","d","a","t","e","s"," ","o","r"," ","s",
      "o","l","u","t","i","o","n","s",".","\n","\n","T","h","a","n","k"," ","y","o","u"," ","f",
      "o","r"," ","y","o","u","r"," ","p","a","t","i","e","n","c","e",".","\n","\n","C","l","i",
      "c","k"," ","h","e","r","e"," ","t","o"," ","v","i","e","w"," ","i","s","s","u","e"," ",
      "d","e","t","a","i","l","s",":"," ","h","t","t","p","s",":","/","/","c","e","s","-","f",
      "r","o","n","t","e","n","d","-","z","e","t","a",".","v","e","r","c","e","l",".","a","p",
      "p","/","f","o","l","l","o","w","u","p","?","i","d","=","{","t","i","c","k","e","t","I",
      "d","}","\n","\n","B","e","s","t"," ","r","e","g","a","r","d","s",",","\n","C","E","S",
      " ","S","u","p","p","o","r","t"," ","T","e","a","m">>

D_ValuedCustomer == <<"V","a","l","u","e","d"," ","C","u","s","t","o","m","e","r">>

\* new Date().toLocaleString()
currentDateTime == currentDate \o <<","," ","1","0",":","0","0",":","0","0"," ","A","M">>

\* EmailService.convertTextToHtml(text)
convertTextToHtml(text) ==
    LET Paragraphs(t) == replaceAll(t, <<"\n","\n">>, <<"<","/","p",">","<","p",">">>)
        Breaks(t) == replaceAll(t, <<"\n">>, <<"<","b","r",">">>)
        Wrapped(t) == <<"<","p",">">> \o t \o <<"<","/","p",">">>
    IN  replaceAll(Wrapped(Breaks(Paragraphs(text))), <<"<","p",">","<","/","p",">">>, <<>>)

\* EmailService.buildEmailBody(template, data): the same replacements on
\* the text body and on the HTML body (template.htmlBody, or the text
\* converted when the template has none)
buildEmailBody(template, data) ==
    LET Replaced(body) ==
            applyReplacements(body,
                << <<P_name, OrElse(Get(data, "name"), D_ValuedCustomer)>>,
                   <<P_ticketId, OrElse(Get(data, "ticketId"), D_NA)>>,
                   <<P_issueTitle, OrElse(Get(data, "issueTitle"), D_YourIssue)>>,
                   <<P_assignedTo, OrElse(Get(data, "assignedTo"), <<>>)>>,
                   <<P_escalatedTo, OrElse(Get(data, "escalatedTo"), <<>>)>>,
                   <<P_responseMessage, OrElse(Get(data, "responseMessage"), <<>>)>>,
                   <<P_currentDate, currentDateTime>> >>)
    IN  [text |-> Replaced(template.body),
         html |-> Replaced(IF template.htmlBody # <<>> THEN template.htmlBody
                           ELSE convertTextToHtml(template.body))]

\* SmsService.sendSms(phoneNumber, message, type): one transport call; it
\* throws an Error for every outcome but a response
sendSms(phoneNumber, message, type, outcome) ==
    [raised |-> outcome # "ok",
     error |-> CASE outcome = "rejected" -> "SMS API Error"
                 [] outcome = "noResponse" -> "SMS API request failed: No response received"
                 [] outcome = "requestError" -> "SMS API request failed"
                 [] OTHER -> "",
     calls |-> << [channel |-> "sms", to |-> phoneNumber, text |-> message,
                   type |-> type, outcome |-> outcome] >>]

\* ------------------------------------------------------------------------
\* Dispatch results
\* ------------------------------------------------------------------------

\* a result object; an absent property is "undefined" (status) or Undef
Sent(message, phoneNumber, ticketId) ==
    [success |-> TRUE, status |-> "sent", message |-> message, errors |-> <<>>,
     email |-> Undef, phoneNumber |-> phoneNumber, ticketId |-> ticketId]
Failed(message, errors) ==
    [success |-> FALSE, status |-> "failed", message |-> message, errors |-> errors,
     email |-> Undef, phoneNumber |-> Undef, ticketId |-> Undef]

TypeErrorMessage == "TypeError"

\* what a call comes to: the value it returns (or raised), and the
\* transport calls it made
Returns(result, calls) == [raised |-> FALSE, result |-> result, calls |-> calls]

\* the try block of sendIssueSms: where it throws (threw, with the
\* error's message) or the transport calls it made on the way to its return
Thrown(message, errors, calls) ==
    [threw |-> TRUE, message |-> message, errors |-> errors, calls |-> calls]
Completed(calls) == [threw |-> FALSE, message |-> "", errors |-> <<>>, calls |-> calls]

\* Each local operator is the rest of the block after one of its consts is
\* bound (validation, normalizedLanguage, template, message, result), so
\* the value is computed once and read by name as in the code.
sendIssueSmsTry(smsData, outcome) ==
    LET Sending(sent) ==
            IF sent.raised THEN Thrown(sent.error, <<>>, sent.calls)
            ELSE Completed(sent.calls)
        Built(message, lang) ==
            Sending(sendSms(Get(smsData, "phoneNumber"), message,
                            determineMessageType(message, lang), outcome))
        Resolved(normalizedLanguage, template) ==
            IF normalizedLanguage.raised \/ template.raised
            THEN Thrown(TypeErrorMessage, <<>>, <<>>)
            ELSE IF ~template.found THEN Thrown("Template not found", <<>>, <<>>)
            ELSE Built(buildSmsMessage(template.message, smsData), normalizedLanguage.lang)
        Normalized(normalizedLanguage) ==
            Resolved(normalizedLanguage,
                     smsGetTemplate(Get(smsData, "subject"), Str(normalizedLanguage.lang)))
        Checked(validation) ==
            IF validation.raised THEN Thrown(TypeErrorMessage, <<>>, <<>>)
            ELSE IF ~validation.isValid THEN Thrown("Validation failed", validation.errors, <<>>)
            ELSE Normalized(normalizeLanguage(Get(smsData, "language")))
    IN  Checked(validateSmsRequest(smsData))

\* sendIssueSms with a catch that lets a TypeError through
sendIssueSms_TypeErrorEscapes(smsData, outcome) ==
    LET Catch(body) ==
            IF body.threw /\ body.message = TypeErrorMessage
            THEN [raised |-> TRUE, result |-> Failed(body.message, body.errors),
                  calls |-> body.calls]
            ELSE IF body.threw THEN Returns(Failed(body.message, body.errors), body.calls)
            ELSE Returns(Sent("SMS sent successfully", Get(smsData, "phoneNumber"),
                              Get(smsData, "ticketId")), body.calls)
    IN  Catch(sendIssueSmsTry(smsData, outcome))

\* sendIssueSms returning the success result without the echoed fields
sendIssueSms_NoEcho(smsData, outcome) ==
    LET Catch(body) ==
            IF body.threw THEN Returns(Failed(body.message, body.errors), body.calls)
            ELSE Returns(Sent("SMS sent successfully", Undef, Undef), body.calls)
    IN  Catch(sendIssueSmsTry(smsData, outcome))

\* SmsService.sendIssueSms(smsData), the transport answering `outcome`:
\* the try block, and the catch that turns every throw into a result
sendIssueSms(smsData, outcome) ==
    LET Catch(body) ==
            IF body.threw THEN Returns(Failed(body.message, body.errors), body.calls)
            ELSE Returns(Sent("SMS sent successfully", Get(smsData, "phoneNumber"),
                              Get(smsData, "ticketId")), body.calls)
    IN  Catch(sendIssueSmsTry(smsData, outcome))

\* sgMail.send(msg): one transport call
sendMail(to, subject, outcome) ==
    [raised |-> outcome # "ok",
     error |-> CASE outcome = "rejected" -> "Email provider error"
                 [] outcome = "noResponse" -> "Email provider: no response"
                 [] OTHER -> "",
     calls |-> << [channel |-> "email", to |-> to, text |-> subject,
                   type |-> "email", outcome |-> outcome] >>]

\* the try block of sendIssueEmail
sendIssueEmailTry(emailData, outcome) ==
    LET Sending(sent) ==
            IF sent.raised THEN Thrown(sent.error, <<>>, sent.calls)
            ELSE Completed(sent.calls)
        Resolved(normalizedLanguage, template) ==
            IF normalizedLanguage.raised \/ template.raised
            THEN Thrown(TypeErrorMessage, <<>>, <<>>)
            ELSE IF ~template.found THEN Thrown("Template not found", <<>>, <<>>)
            ELSE Sending(sendMail(Get(emailData, "email"),
                                  buildEmailSubject(Get(emailData, "subject"),
                                                    Get(emailData, "ticketId"), template.subject,
                                                    Get(emailData, "assignedTo"),
                                                    Get(emailData, "escalatedTo")),
                                  outcome))
        Normalized(normalizedLanguage) ==
            Resolved(normalizedLanguage,
                     emailGetTemplate(Get(emailData, "subject"), Str(normalizedLanguage.lang)))
        Checked(validation) ==
            IF validation.raised THEN Thrown(TypeErrorMessage, <<>>, <<>>)
            ELSE IF ~validation.isValid THEN Thrown("Validation failed", validation.errors, <<>>)
            ELSE Normalized(normalizeLanguage(Get(emailData, "language")))
    IN  Checked(validateEmailRequest(emailData))

\* sendIssueEmail trying the transport a second time when it failed
sendIssueEmail_Retries(emailData, outcome) ==
    LET Catch(body) ==
            IF body.threw
            THEN Returns(Failed(body.message, body.errors), body.calls \o body.calls)
            ELSE Returns(Sent("Email sent successfully", Undef, Undef), body.calls)
    IN  Catch(sendIssueEmailTry(emailData, outcome))

\* EmailService.sendIssueEmail(emailData), the transport answering
\* `outcome`: the try block, and the catch that turns every throw into a
\* result; the result has no recipient and no ticketId property
sendIssueEmail(emailData, outcome) ==
    LET Catch(body) ==
            IF body.threw THEN Returns(Failed(body.message, body.errors), body.calls)
            ELSE Returns(Sent("Email sent successfully", Undef, Undef), body.calls)
    IN  Catch(sendIssueEmailTry(emailData, outcome))

\* ------------------------------------------------------------------------
\* Inputs of the model
\* ------------------------------------------------------------------------

MaxList == 3

E_ok == <<"a","@","b",".","c","o">>
E_bad == <<"a","b">>
Ph_ok == <<"2","5","0","7","8","8","1">>
Ph_plus == <<"+","2","5","0","7","8","8","2">>
Ph_bad == <<"1","2","a","b">>
Tk_1 == <<"T","-","1">>
Tk_2 == <<"T","-","2">>
N_Alice == <<"A","l","i","c","e">>
N_Bob == <<"B","o","b">>
N_Eve == <<"E","v","e">>
S_InProgress == <<"I","n","-","P","r","o","g","r","e","s","s">>
S_receivedSp == <<" ","r","e","c","e","i","v","e","d">>
S_open == <<"o","p","e","n">>
Lg_FR == <<"F","R">>
Lg_de == <<"d","e">>
Five == Num(5)

\* the (email, phoneNumber) a request carries: valid, valid with a '+',
\* malformed, of the wrong type, absent
Recipients == { <<Str(E_ok), Str(Ph_ok)>>, <<Str(E_ok), Str(Ph_plus)>>,
                <<Str(E_bad), Str(Ph_bad)>>, <<Five, Five>>, <<Undef, Undef>> }
TicketIds == {Str(Tk_1), Undef}
LanguageValues == {Str(L_english), Str(Lg_FR), Str(L_kinyarwanda), Str(Lg_de), Five, Undef}
SubjectValues == {Str(K_received), Str(K_assigned), Str(K_escalated), Str(S_InProgress),
                  Str(S_receivedSp), Str(S_open), Five, Undef}

Request(recipient, ticketId, name, language, subject, assignedTo, escalatedTo) ==
    Obj([email |-> recipient[1], phoneNumber |-> recipient[2], ticketId |-> ticketId,
         name |-> name, language |-> language, subject |-> subject,
         assignedTo |-> assignedTo, escalatedTo |-> escalatedTo,
         issueTitle |-> Undef, responseMessage |-> Undef])

\* the arguments of a single dispatch: request objects, and values that
\* are no object
SingleRequests ==
    { Request(r, t, Str(N_Alice), l, s, a, e) :
        r \in Recipients, t \in TicketIds, l \in LanguageValues, s \in SubjectValues,
        a \in {Undef, Str(N_Bob)}, e \in {Undef, Str(N_Eve)} }
    \cup {NonObj(Undef), NonObj(Null), NonObj(Five)}

\* the members of a bulk list
ItemAlice == Request(<<Str(E_ok), Str(Ph_ok)>>, Str(Tk_1), Str(N_Alice), Str(L_english),
                     Str(K_received), Undef, Undef)
ItemAlicePlus == Request(<<Str(E_ok), Str(Ph_plus)>>, Str(Tk_1), Str(N_Alice), Str(L_english),
                     Str(K_received), Undef, Undef)
ItemFrench == Request(<<Str(E_ok), Str(Ph_ok)>>, Str(Tk_2), Str(N_Bob), Str(Lg_FR),
                     Str(K_received), Undef, Undef)
ItemUnknownSubject == Request(<<Str(E_ok), Str(Ph_ok)>>, Str(Tk_2), Str(N_Bob), Str(L_english),
                     Str(S_open), Undef, Undef)
ItemBadRecipient == Request(<<Str(E_bad), Str(Ph_bad)>>, Str(Tk_1), Str(N_Alice), Str(L_english),
                     Str(K_received), Undef, Undef)
BulkItems == {ItemAlice, ItemAlicePlus, ItemFrench, ItemUnknownSubject, ItemBadRecipient,
              NonObj(Null)}
BulkLists == UNION {[1..n -> BulkItems] : n \in 0..MaxList}

\* trip requests
Dest_Kigali == <<"K","i","g","a","l","i">>
RT_2hours == <<"2"," ","h","o","u","r","s">>
RT_soon == <<"s","o","o","n">>
T_TripRemainingTime ==
    <<"T","r","i","p","-","R","e","m","a","i","n","i","n","g","-","T","i","m","e">>
TripRequests ==
    { Obj([email |-> r[1], phoneNumber |-> r[2], name |-> Str(N_Alice), language |-> l,
           notificationType |-> nt, destinationName |-> d, remainingTime |-> rt,
           tripId |-> Undef]) :
        r \in Recipients \cup {<<Str(E_ok), Undef>>, <<Undef, Str(Ph_ok)>>},
        l \in {Str(L_english), Five},
        nt \in {Str(T_trip_remaining_time), Str(T_trip_arrival_notice),
                Str(T_TripRemainingTime), Five, Undef},
        d \in {Str(Dest_Kigali), Undef},
        rt \in {Str(RT_2hours), Str(RT_soon), Five, Undef} }
    \cup {NonObj(Undef), NonObj(Null), NonObj(Five)}

\* ------------------------------------------------------------------------
\* Bulk dispatch: the loop bodies
\* ------------------------------------------------------------------------

TypeChars(type) ==
    IF type = "unicode" THEN <<"u","n","i","c","o","d","e">> ELSE <<"p","l","a","i","n">>

\* `${message}_${messageType}`
messageKeyOf(message, messageType) == message \o <<"_">> \o TypeChars(messageType)

\* one entry of a bulk result list; src is the index of the request the
\* entry was made for (bookkeeping of the model, not a property)
Entry(item, src, result) ==
    [email |-> Get(item, "email"), phoneNumber |-> Get(item, "phoneNumber"),
     ticketId |-> Get(item, "ticketId"), src |-> src, result |-> result]

\* the result objects sendBulkSms builds in place
TemplateNotFoundResult ==
    [success |-> FALSE, status |-> "undefined", message |-> "Template not found", errors |-> <<>>,
     email |-> Undef, phoneNumber |-> Undef, ticketId |-> Undef]
GroupSentResult == Sent("SMS sent successfully", Undef, Undef)
GroupFailedResult(message) == Failed(message, <<>>)

\* addRecipient that opens a new group for every recipient
addRecipient_NeverMerges(groups, key, message, type, recipient) ==
    Append(groups, [key |-> key, message |-> message, type |-> type,
                    recipients |-> <<recipient>>])

\* messageGroups with one more recipient under `key`, the group created on
\* first use; the groups stay in insertion order
addRecipient(groups, key, message, type, recipient) ==
    IF \E g \in 1..Len(groups) : groups[g].key = key
    THEN [g \in 1..Len(groups) |->
             IF groups[g].key = key
             THEN [groups[g] EXCEPT !.recipients = Append(@, recipient)]
             ELSE groups[g]]
    ELSE Append(groups, [key |-> key, message |-> message, type |-> type,
                         recipients |-> <<recipient>>])

\* the body of sendBulkSms's first loop for one member: it throws (the
\* destructuring of null, normalizeLanguage or getTemplate on a value with
\* no such method), pushes a template-not-found entry, or files the
\* member under its message key
groupItem(smsData, src, groups, entries) ==
    LET Filed(message, messageType) ==
            [raised |-> FALSE, entries |-> entries,
             groups |-> addRecipient(groups, messageKeyOf(message, messageType), message,
                                     messageType, Entry(smsData, src, GroupSentResult))]
        Built(message, lang) == Filed(message, determineMessageType(message, lang))
        Resolved(normalizedLanguage, template) ==
            IF smsData.t \in {"null", "undefined"} \/ normalizedLanguage.raised \/ template.raised
            THEN [raised |-> TRUE, groups |-> groups, entries |-> entries]
            ELSE IF ~template.found
            THEN [raised |-> FALSE, groups |-> groups,
                  entries |-> Append(entries, Entry(smsData, src, TemplateNotFoundResult))]
            ELSE Built(buildSmsMessage(template.message, smsData), normalizedLanguage.lang)
        Normalized(normalizedLanguage) ==
            Resolved(normalizedLanguage,
                     smsGetTemplate(Get(smsData, "subject"), Str(normalizedLanguage.lang)))
    IN  Normalized(normalizeLanguage(Get(smsData, "language")))

\* Array.prototype.join(', ') over the recipients' phoneNumber: undefined
\* and null join as the empty string
RECURSIVE joinPhones(_)
joinPhones(recipients) ==
    IF recipients = <<>> THEN <<>>
    ELSE (IF IsNullish(Head(recipients).phoneNumber) THEN <<>>
          ELSE ToText(Head(recipients).phoneNumber))
         \o (IF Len(recipients) > 1 THEN <<",", " ">> ELSE <<>>)
         \o joinPhones(Tail(recipients))

\* the body of sendBulkSms's second loop for one group: one transport
\* call, then one entry per recipient of the group
sendGroup(group, outcome) ==
    LET Sending(sent) ==
            [calls |-> sent.calls,
             entries |-> [r \in 1..Len(group.recipients) |->
                            [group.recipients[r] EXCEPT
                               !.result = IF sent.raised THEN GroupFailedResult(sent.error)
                                          ELSE GroupSentResult]]]
    IN  Sending(sendSms(joinPhones(group.recipients), group.message, group.type, outcome))

\* emailItem that throws when the member's dispatch failed
emailItem_ThrowsOnFailure(emailData, src, outcome) ==
    LET Pushed(r) ==
            [raised |-> r.raised \/ emailData.t \in {"null", "undefined"} \/ ~r.result.success,
             calls |-> r.calls,
             entries |-> <<Entry(emailData, src, r.result)>>]
    IN  Pushed(sendIssueEmail(emailData, outcome))

\* the body of sendBulkEmails's loop for one member: sendIssueEmail, then
\* the entry; reading emailData.email of null or undefined throws
emailItem(emailData, src, outcome) ==
    LET Pushed(r) ==
            [raised |-> r.raised \/ emailData.t \in {"null", "undefined"},
             calls |-> r.calls,
             entries |-> <<Entry(emailData, src, r.result)>>]
    IN  Pushed(sendIssueEmail(emailData, outcome))

\* ------------------------------------------------------------------------
\* The dispatch layer as a state machine: one operation per behaviour
\* ------------------------------------------------------------------------

VARIABLES
    pc,             \* "idle", inside a bulk loop, or "done"
    op,             \* the operation called
    arg,            \* its argument (single dispatch, validation)
    list,           \* its argument (bulk dispatch)
    idx,            \* the loop index of a bulk operation
    messageGroups,  \* sendBulkSms: the groups, in insertion order
    results,        \* the bulk result list under construction
    calls,          \* the transport calls made so far
    ret,            \* what the operation came to: a value, or raised
    env             \* process.env: TEST_EMAIL and TEST_PHONE

vars == <<pc, op, arg, list, idx, messageGroups, results, calls, ret, env>>

\* process.env with neither test recipient set (both are optional settings)
UnsetEnv == [TEST_EMAIL |-> Undef, TEST_PHONE |-> Undef]

NoValue == [kind |-> "none"]
Value(v) == [kind |-> "value", v |-> v]
RaisedOut == [kind |-> "raised"]

Init ==
    /\ pc = "idle"
    /\ op = "none"
    /\ arg = NonObj(Undef)
    /\ list = <<>>
    /\ idx = 0
    /\ messageGroups = <<>>
    /\ results = <<>>
    /\ calls = <<>>
    /\ ret = NoValue
    /\ env = UnsetEnv

Single(name, data, r) ==
    /\ pc' = "done"
    /\ op' = name
    /\ arg' = data
    /\ calls' = r.calls
    /\ ret' = IF r.raised THEN RaisedOut ELSE Value(r.result)
    /\ UNCHANGED <<list, idx, messageGroups, results, env>>

SendIssueEmail ==
    /\ pc = "idle"
    /\ \E data \in SingleRequests, outcome \in EmailOutcomes :
          Single("sendIssueEmail", data, sendIssueEmail(data, outcome))

SendIssueSms ==
    /\ pc = "idle"
    /\ \E data \in SingleRequests, outcome \in SmsOutcomes :
          Single("sendIssueSms", data, sendIssueSms(data, outcome))

Validated(name, data, verdict) ==
    /\ pc' = "done"
    /\ op' = name
    /\ arg' = data
    /\ ret' = IF verdict.raised THEN RaisedOut ELSE Value(verdict)
    /\ UNCHANGED <<list, idx, messageGroups, results, calls, env>>

ValidateEmail ==
    /\ pc = "idle"
    /\ \E data \in SingleRequests : Validated("validateEmailRequest", data, validateEmailRequest(data))

ValidateSms ==
    /\ pc = "idle"
    /\ \E data \in SingleRequests : Validated("validateSmsRequest", data, validateSmsRequest(data))

ValidateTrip ==
    /\ pc = "idle"
    /\ \E data \in TripRequests : Validated("validateTripRequest", data, validateTripRequest(data))

\* ---- sendBulkEmails ----

BulkStart(name, first) ==
    /\ pc = "idle"
    /\ \E l \in BulkLists : list' = l
    /\ pc' = first
    /\ op' = name
    /\ idx' = 1
    /\ UNCHANGED <<arg, messageGroups, results, calls, ret, env>>

SendBulkEmailsStart == BulkStart("sendBulkEmails", "emailLoop")

SendBulkEmailsItem ==
    /\ pc = "emailLoop"
    /\ idx <= Len(list)
    /\ \E outcome \in EmailOutcomes :
          \E r \in {emailItem(list[idx], idx, outcome)} :
              /\ calls' = calls \o r.calls
              /\ IF r.raised
                 THEN pc' = "done" /\ ret' = RaisedOut /\ UNCHANGED <<idx, results>>
                 ELSE /\ results' = results \o r.entries
                      /\ idx' = idx + 1
                      /\ UNCHANGED <<pc, ret>>
    /\ UNCHANGED <<op, arg, list, messageGroups, env>>

SendBulkEmailsReturn ==
    /\ pc = "emailLoop"
    /\ idx > Len(list)
    /\ pc' = "done"
    /\ ret' = Value(results)
    /\ UNCHANGED <<op, arg, list, idx, messageGroups, results, calls, env>>

\* ---- sendBulkSms ----

SendBulkSmsStart == BulkStart("sendBulkSms", "groupLoop")

SendBulkSmsGroup ==
    /\ pc = "groupLoop"
    /\ idx <= Len(list)
    /\ \E r \in {groupItem(list[idx], idx, messageGroups, results)} :
           IF r.raised
           THEN pc' = "done" /\ ret' = RaisedOut /\ UNCHANGED <<idx, messageGroups, results>>
           ELSE /\ messageGroups' = r.groups
                /\ results' = r.entries
                /\ idx' = idx + 1
                /\ UNCHANGED <<pc, ret>>
    /\ UNCHANGED <<op, arg, list, calls, env>>

SendBulkSmsGrouped ==
    /\ pc = "groupLoop"
    /\ idx > Len(list)
    /\ pc' = "sendLoop"
    /\ idx' = 1
    /\ UNCHANGED <<op, arg, list, messageGroups, results, calls, ret, env>>

SendBulkSmsSend ==
    /\ pc = "sendLoop"
    /\ idx <= Len(messageGroups)
    /\ \E outcome \in SmsOutcomes :
          \E r \in {sendGroup(messageGroups[idx], outcome)} :
              /\ calls' = calls \o r.calls
              /\ results' = results \o r.entries
    /\ idx' = idx + 1
    /\ UNCHANGED <<pc, op, arg, list, messageGroups, ret, env>>

SendBulkSmsReturn ==
    /\ pc = "sendLoop"
    /\ idx > Len(messageGroups)
    /\ pc' = "done"
    /\ ret' = Value(results)
    /\ UNCHANGED <<op, arg, list, idx, messageGroups, results, calls, env>>

Next ==
    \/ SendIssueEmail
    \/ SendIssueSms
    \/ ValidateEmail
    \/ ValidateSms
    \/ ValidateTrip
    \/ SendBulkEmailsStart
    \/ SendBulkEmailsItem
    \/ SendBulkEmailsReturn
    \/ SendBulkSmsStart
    \/ SendBulkSmsGroup
    \/ SendBulkSmsGrouped
    \/ SendBulkSmsSend
    \/ SendBulkSmsReturn

Spec == Init /\ [][Next]_vars

\* ------------------------------------------------------------------------
\* Properties
\* ------------------------------------------------------------------------

SingleOps == {"sendIssueEmail", "sendIssueSms"}
BulkOps == {"sendBulkEmails", "sendBulkSms"}
ValidateOps == {"validateEmailRequest", "validateSmsRequest", "validateTripRequest"}

SingleDone == pc = "done" /\ op \in SingleOps
BulkReturned == pc = "done" /\ op \in BulkOps /\ ret.kind = "value"

\* did validation of the single request fail (an invalid verdict, or a throw)
ValidationFailed ==
    LET v == IF op = "sendIssueEmail" THEN validateEmailRequest(arg) ELSE validateSmsRequest(arg)
    IN  v.raised \/ ~v.isValid

\* did template resolution of the single request fail
TemplateMissing ==
    LET nl == normalizeLanguage(Get(arg, "language"))
    IN  \/ nl.raised
        \/ IF op = "sendIssueEmail"
           THEN ~emailGetTemplate(Get(arg, "subject"), Str(nl.lang)).found
           ELSE ~smsGetTemplate(Get(arg, "subject"), Str(nl.lang)).found

TransportFailed == \E c \in 1..Len(calls) : calls[c].outcome # "ok"

\* C1: a single dispatch (sendIssueEmail, sendIssueSms) always returns a
\* result value, whatever its input and whatever the transport answers, and
\* when validation, template resolution or the transport failed the result
\* has success = false and status = 'failed'.
C1_SingleDispatchNeverRaises ==
    SingleDone =>
        /\ ret.kind = "value"
        /\ (ValidationFailed \/ TemplateMissing \/ TransportFailed)
              => (ret.v.success = FALSE /\ ret.v.status = "failed")

\* C1 witness: sendIssueSms was called with a request whose validation
\* throws (a numeric subject) and returned a failed result.
C1_Witness ==
    /\ SingleDone /\ op = "sendIssueSms"
    /\ validateSmsRequest(arg).raised
    /\ ret.kind = "value" /\ ret.v.success = FALSE

\* C2 (as claimed): a bulk dispatch returns a result list, one entry per
\* member, without raising, for every list, members that are null or carry
\* a wrongly typed field included.
C2_BulkContainsEveryMemberError ==
    (pc = "done" /\ op \in BulkOps) =>
        /\ ret.kind = "value"
        /\ Len(ret.v) = Len(list)
        /\ \A i \in 1..Len(list) :
              list[i].t # "object"
                  => \A e \in 1..Len(ret.v) : ret.v[e].src = i => ret.v[e].result.success = FALSE

\* the entry made for request i of the list, in a returned bulk result
EntriesFor(i) == {e \in 1..Len(ret.v) : ret.v[e].src = i}

\* C3 (as claimed): when sendBulkSms returns for a list in which exactly
\* item k fails validation, there are N results and item k's is failed.
C3_BulkSmsMarksMalformedItemFailed ==
    (BulkReturned /\ op = "sendBulkSms") =>
        \A k \in 1..Len(list) :
            ( /\ ~validateSmsRequest(list[k]).isValid
              /\ \A i \in 1..Len(list) : i # k => validateSmsRequest(list[i]).isValid )
            => /\ Len(ret.v) = Len(list)
               /\ \A e \in EntriesFor(k) : ret.v[e].result.success = FALSE

\* C4 (as claimed): when sendBulkSms returns, the list has N entries and
\* entry i is the one made for request i, with its phoneNumber and ticketId.
C4_BulkSmsOrderPreserving ==
    (BulkReturned /\ op = "sendBulkSms") =>
        /\ Len(ret.v) = Len(list)
        /\ \A i \in 1..Len(list) :
              /\ ret.v[i].src = i
              /\ ret.v[i].phoneNumber = Get(list[i], "phoneNumber")
              /\ ret.v[i].ticketId = Get(list[i], "ticketId")

AllObjects == \A i \in 1..Len(list) : list[i].t = "object"

\* would a request reach the email transport
Sendable(emailData) == sendIssueEmail(emailData, "ok").calls # <<>>

\* C5: for a list of N request objects sendBulkEmails returns N entries in
\* input order; entry i echoes request i's email and ticketId and holds the
\* result sendIssueEmail gives for request i (with the answer the transport
\* gave to request i's call); every request that passes validation and
\* template resolution is sent, also after a failed item.
C5_BulkEmailSequential ==
    (pc = "done" /\ op = "sendBulkEmails" /\ AllObjects) =>
        LET sendable == <<>> \o [i \in 1..Len(list) |-> Sendable(list[i])]
            \* the position, among the transport calls, of request i's call
            sendIndex == <<>> \o [i \in 1..Len(list) |->
                                    Cardinality({j \in 1..i : sendable[j]})]
        IN  /\ ret.kind = "value"
            /\ Len(ret.v) = Len(list)
            /\ Len(calls) = Cardinality({i \in 1..Len(list) : sendable[i]})
            /\ \A i \in 1..Len(list) :
                  /\ ret.v[i].src = i
                  /\ ret.v[i].email = Get(list[i], "email")
                  /\ ret.v[i].ticketId = Get(list[i], "ticketId")
                  /\ sendable[i] =>
                        /\ calls[sendIndex[i]].to = Get(list[i], "email")
                        /\ ret.v[i].result =
                              sendIssueEmail(list[i], calls[sendIndex[i]].outcome).result
                  /\ (~sendable[i]) => ret.v[i].result = sendIssueEmail(list[i], "ok").result

\* C5 witness: a list of three request objects whose second item failed
\* and whose third was sent.
C5_Witness ==
    /\ pc = "done" /\ op = "sendBulkEmails" /\ AllObjects /\ ret.kind = "value"
    /\ Len(list) = 3
    /\ ret.v[2].result.success = FALSE
    /\ ret.v[3].result.success = TRUE

\* the message and message type a request renders to (none without a
\* template)
RenderedPair(smsData) ==
    LET lang == normalizeLanguage(Get(smsData, "language")).lang
        template == smsGetTemplate(Get(smsData, "subject"), Str(lang))
        message == buildSmsMessage(template.message, smsData)
    IN  IF template.found THEN <<message, determineMessageType(message, lang)>> ELSE <<>>

\* the rendered pairs of the list's requests, as a sequence
RenderedPairs == <<>> \o [i \in 1..Len(list) |-> RenderedPair(list[i])]

\* the requests of the list that have a template
Templated == {i \in 1..Len(list) : RenderedPairs[i] # <<>>}

\* the phone numbers of a set of requests, in input order, joined by ', '
RECURSIVE JoinedPhones(_, _)
JoinedPhones(members, from) ==
    IF \A i \in members : i < from THEN <<>>
    ELSE LET m == CHOOSE i \in members : i >= from /\ \A j \in members : j >= from => i <= j
             phone == Get(list[m], "phoneNumber")
         IN  (IF IsNullish(phone) THEN <<>> ELSE ToText(phone))
             \o (IF \E j \in members : j > m THEN <<",", " ">> ELSE <<>>)
             \o JoinedPhones(members, m + 1)

\* C6: when sendBulkSms returns, it has made one transport call per
\* distinct (rendered text, message type) pair among the requests that have
\* a template; each call carries the phone numbers of all requests of its
\* pair; and each such request's entry reports success exactly when that
\* one call succeeded.
C6_BulkSmsOneCallPerGroup ==
    (BulkReturned /\ op = "sendBulkSms") =>
        LET pairs == RenderedPairs
            templated == {i \in 1..Len(list) : pairs[i] # <<>>}
            membersOf == [c \in 1..Len(calls) |->
                            {i \in templated : pairs[i] = <<calls[c].text, calls[c].type>>}]
        IN  /\ Len(calls) = Cardinality({pairs[i] : i \in templated})
            /\ \A c \in 1..Len(calls) :
                  /\ membersOf[c] # {}
                  /\ calls[c].to = JoinedPhones(membersOf[c], 1)
                  /\ \A i \in membersOf[c] :
                        /\ EntriesFor(i) # {}
                        /\ \A e \in EntriesFor(i) :
                              ret.v[e].result.success = (calls[c].outcome = "ok")
            /\ \A i \in templated : \E c \in 1..Len(calls) : i \in membersOf[c]

\* C6 witness: two requests rendering to the same text and type were sent
\* by one call carrying both phone numbers, and both entries report success.
C6_Witness ==
    /\ BulkReturned /\ op = "sendBulkSms"
    /\ Len(list) = 2 /\ Templated = {1, 2}
    /\ Get(list[1], "phoneNumber") # Get(list[2], "phoneNumber")
    /\ Len(calls) = 1
    /\ calls[1].to = Ph_ok \o <<",", " ">> \o Ph_plus
    /\ \A e \in 1..Len(ret.v) : ret.v[e].result.success

StatusMatches(r) == r.status = (IF r.success THEN "sent" ELSE "failed")

\* C7 (as claimed): every dispatch result, of a single dispatch and of
\* each entry of a bulk dispatch, has status 'sent' exactly when success is
\* true and 'failed' exactly when success is false.
C7_StatusTagMatchesSuccess ==
    /\ (SingleDone /\ ret.kind = "value") => StatusMatches(ret.v)
    /\ BulkReturned => \A e \in 1..Len(ret.v) : StatusMatches(ret.v[e].result)

\* C8 (as claimed): every result of sendIssueEmail and sendIssueSms echoes
\* the request's recipient address and ticketId.
C8_EveryResultEchoes ==
    (SingleDone /\ ret.kind = "value") =>
        /\ ret.v.ticketId = Get(arg, "ticketId")
        /\ IF op = "sendIssueSms" THEN ret.v.phoneNumber = Get(arg, "phoneNumber")
           ELSE ret.v.email = Get(arg, "email")

\* C8 (amended): a successful result of sendIssueSms echoes the request's
\* phoneNumber and ticketId; a failed result of sendIssueSms and every
\* result of sendIssueEmail carries neither a recipient nor a ticketId.
C8_OnlySmsSuccessEchoes ==
    (SingleDone /\ ret.kind = "value") =>
        IF op = "sendIssueSms" /\ ret.v.success
        THEN /\ ret.v.phoneNumber = Get(arg, "phoneNumber")
             /\ ret.v.ticketId = Get(arg, "ticketId")
             /\ Truthy(ret.v.phoneNumber) /\ Truthy(ret.v.ticketId)
        ELSE ret.v.phoneNumber = Undef /\ ret.v.email = Undef /\ ret.v.ticketId = Undef

\* C8 witness: sendIssueSms succeeded and its result carries the request's
\* phoneNumber as it was given.
C8_Witness ==
    /\ SingleDone /\ op = "sendIssueSms" /\ ret.kind = "value"
    /\ ret.v.success
    /\ ret.v.phoneNumber = Str(Ph_plus)

\* C9: one single dispatch calls its transport at most once, not at all
\* when validation or template resolution failed, and a failed transport
\* call is followed by no second call and gives one failed result.
C9_NoRetry ==
    SingleDone =>
        /\ Len(calls) <= 1
        /\ (ValidationFailed \/ TemplateMissing) => calls = <<>>
        /\ TransportFailed =>
              (Len(calls) = 1 /\ ret.kind = "value" /\ ret.v.success = FALSE)
        /\ \A c \in 1..Len(calls) :
              calls[c].channel = (IF op = "sendIssueEmail" THEN "email" ELSE "sms")

\* C9 witness: sendIssueEmail reached the transport, which gave no
\* response; there was one call and the result is failed.
C9_Witness ==
    /\ SingleDone /\ op = "sendIssueEmail"
    /\ Len(calls) = 1 /\ calls[1].outcome = "noResponse"
    /\ ret.kind = "value" /\ ret.v.success = FALSE

\* C10 (as claimed): validateEmailRequest, validateSmsRequest and
\* validateTripRequest return {isValid, errors} for every input and never
\* raise.
C10_ValidationTotal ==
    (pc = "done" /\ op \in ValidateOps) =>
        /\ ret.kind = "value"
        /\ ret.v.isValid = (ret.v.errors = <<>>)

\* ------------------------------------------------------------------------
\* Conditional requirement of assignedTo / escalatedTo
\* ------------------------------------------------------------------------

RequestValidateOps == {"validateEmailRequest", "validateSmsRequest"}
RequestValidated == pc = "done" /\ op \in RequestValidateOps /\ arg.t = "object"

Rejected == ret.kind = "value" /\ ~ret.v.isValid

\* C11 (as claimed): validation (email and SMS) rejects every request whose
\* subject is 'assigned' and that has no assignedTo, and every request whose
\* subject is 'escalated' and that has no escalatedTo, whatever the other
\* optional name is.
C11_ConditionalNamesRequired ==
    RequestValidated =>
        /\ (Get(arg, "subject") = Str(K_assigned) /\ ~Truthy(Get(arg, "assignedTo")))
              => Rejected
        /\ (Get(arg, "subject") = Str(K_escalated) /\ ~Truthy(Get(arg, "escalatedTo")))
              => Rejected

\* the fields every request needs, each well-formed for the operation
WellFormedBase ==
    /\ arg.t = "object"
    /\ IF op = "validateEmailRequest"
       THEN Get(arg, "email") = Str(E_ok)
       ELSE Get(arg, "phoneNumber") \in {Str(Ph_ok), Str(Ph_plus)}
    /\ Get(arg, "ticketId") = Str(Tk_1)
    /\ Get(arg, "name") = Str(N_Alice)
    /\ Get(arg, "language") \in {Str(L_english), Str(Lg_FR), Str(L_kinyarwanda)}

\* C12: an otherwise valid request with subject 'assigned' fails validation
\* (with the assignedTo message) when neither assignedTo nor escalatedTo is
\* given, and passes once a valid assignedTo is supplied.
C12_AssignedNeedsAssignee ==
    (RequestValidated /\ WellFormedBase /\ Get(arg, "subject") = Str(K_assigned)
        /\ ~Truthy(Get(arg, "escalatedTo"))) =>
        /\ ret.kind = "value"
        /\ ~Truthy(Get(arg, "assignedTo")) =>
              /\ ~ret.v.isValid
              /\ ret.v.errors = <<"assignedTo is required when subject is \"assigned\"">>
        /\ Get(arg, "assignedTo") = Str(N_Bob) => (ret.v.isValid /\ ret.v.errors = <<>>)

\* C12 witness: validateSmsRequest accepted an 'assigned' request that
\* names its assignee.
C12_Witness ==
    /\ RequestValidated /\ op = "validateSmsRequest" /\ WellFormedBase
    /\ Get(arg, "subject") = Str(K_assigned)
    /\ Get(arg, "assignedTo") = Str(N_Bob) /\ ~Truthy(Get(arg, "escalatedTo"))
    /\ ret.kind = "value" /\ ret.v.isValid

\* ------------------------------------------------------------------------
\* The functions on their own: one call per behaviour
\* ------------------------------------------------------------------------

MaxMessageLen == 160

\* a string of n equal code units
Repeat(c, n) == [i \in 1..n |-> c]

\* the longest name and ticketId validation accepts
LongName == Repeat("a", MaxNameLen)
LongTicketId == Repeat("7", MaxTicketIdLen)

\* SMS requests that pass every field check, short and long
LengthRequests ==
    { Request(<<Undef, Str(Ph_ok)>>, t, n, l, s, a, e) :
        t \in {Str(Tk_1), Str(LongTicketId)}, n \in {Str(N_Alice), Str(LongName)},
        l \in {Str(L_english), Str(L_french), Str(L_kinyarwanda)},
        s \in {Str(k) : k \in getAvailableStatuses},
        a \in {Undef, Str(N_Bob), Str(LongName)}, e \in {Undef, Str(N_Eve), Str(LongName)} }

\* messages of every length up to the bound: ASCII only, or ending in one
\* non-ASCII code unit
MeasuredMessages ==
    {Repeat("a", n) : n \in 0..MaxMessageLen}
    \cup {Repeat("a", n - 1) \o <<"u00E9">> : n \in 1..MaxMessageLen}

\* one call of a function: its name, its arguments and what it came to
Called(name, input, output) ==
    /\ pc = "idle"
    /\ pc' = "done"
    /\ op' = name
    /\ arg' = input
    /\ ret' = output
    /\ UNCHANGED <<list, idx, messageGroups, results, calls, env>>

ValidateSmsLength ==
    \E data \in LengthRequests :
        \E verdict \in {validateSmsRequest(data)} :
            Called("validateSmsRequest", data,
                   IF verdict.raised THEN RaisedOut ELSE Value(verdict))

\* determineMessageType, then getMessageInfo with the type it gave
MeasureSms ==
    \E message \in MeasuredMessages, language \in Languages :
        Called("getMessageInfo", [message |-> message, language |-> language],
               Value(getMessageInfo(message, determineMessageType(message, language))))

\* getTemplate(status, language) called on its own, on either store
S_InSpacesProgress == <<"I","n"," "," ","P","r","o","g","r","e","s","s">>
S_in__progress == <<"i","n","_","_","p","r","o","g","r","e","s","s">>
Lg_FRENCH == <<"F","R","E","N","C","H">>
TemplateStatuses ==
    {Str(k) : k \in DOMAIN smsTemplates}
        \cup {Str(S_InProgress), Str(S_InSpacesProgress), Str(S_in__progress), Str(S_open),
              Str(N_constructor), Str(N_proto), Undef, Five}
TemplateLanguages ==
    {Str(l) : l \in Languages}
        \cup {Str(Lg_FRENCH), Str(Lg_FR), Str(Lg_de), Str(N_constructor), Str(N_proto),
              Undef, Null, Five}

GetTemplate ==
    \E store \in {"sms", "email"}, status \in TemplateStatuses, language \in TemplateLanguages :
        \E template \in {IF store = "sms" THEN smsGetTemplate(status, language)
                         ELSE emailGetTemplate(status, language)} :
            Called("getTemplate", [store |-> store, status |-> status, language |-> language],
                   IF template.raised THEN RaisedOut ELSE Value(template))

\* normalizeLanguage(language) called on its own, on either service
Lg_FrPadded == <<" ","F","r"," ">>
Lg_KIN == <<"K","I","N">>
Lg_EnTab == <<"E","n","\t">>
Lg_Francais == <<"F","r","a","n","u00E7","a","i","s">>
NormalizedInputs ==
    {Str(l) : l \in Languages \cup languageMap}
        \cup {Str(A_francaisService), Str(Lg_Francais), Str(Lg_FR), Str(Lg_FrPadded),
              Str(Lg_KIN), Str(Lg_EnTab), Str(Lg_FRENCH), Str(Lg_de), Str(<<>>),
              Undef, Null, Five}

NormalizeLanguage ==
    \E service \in {"sms", "email"}, language \in NormalizedInputs :
        \E normalized \in {normalizeLanguage(language)} :
            Called("normalizeLanguage", [service |-> service, language |-> language],
                   IF normalized.raised THEN RaisedOut ELSE Value(normalized.lang))

\* isValidSubject(subject) called on its own with a string
IsValidSubject ==
    \E status \in {s \in TemplateStatuses : s.t = "string"} :
        Called("isValidSubject", [status |-> status], Value(isValidSubject(status.s)))

\* buildSmsMessage and buildEmailBody called on their own
IT_Printer == <<"P","r","i","n","t","e","r">>
IT_Offer == <<"S","a","v","e"," ","$","$","5"," ","(","$","&",")">>
RenderData ==
    { Obj([NoFields EXCEPT !.name = name, !.ticketId = ticketId, !.issueTitle = issueTitle,
                           !.assignedTo = assignedTo, !.escalatedTo = escalatedTo]) :
        name \in {Str(N_Alice), Str(P_ticketId), Str(<<>>), Undef},
        ticketId \in {Str(Tk_1), Undef},
        issueTitle \in {Str(IT_Printer), Str(P_assignedTo), Str(IT_Offer), Undef},
        assignedTo \in {Str(N_Bob), Undef},
        escalatedTo \in {Str(N_Eve), Undef} }
SmsSkeletons == {smsTemplates[K_received][L_french], smsTemplates[K_escalated][L_english]}
EmailSkeletons == {[body |-> B_assigned_english, htmlBody |-> <<>>]}

BuildSmsMessage ==
    \E template \in SmsSkeletons, data \in RenderData :
        Called("buildSmsMessage", [template |-> template, data |-> data],
               Value(buildSmsMessage(template, data)))

BuildEmailBody ==
    \E template \in EmailSkeletons, data \in RenderData :
        Called("buildEmailBody", [template |-> template.body, data |-> data],
               Value(buildEmailBody(template, data).text))

\* buildEmailSubject called on its own
S_Assigned == <<"A","s","s","i","g","n","e","d">>
S_ESCALATED == <<"E","S","C","A","L","A","T","E","D">>
SubjectStatuses ==
    {Str(K_received), Str(K_assigned), Str(K_escalated), Str(K_in_progress),
     Str(S_Assigned), Str(S_ESCALATED)}
SubjectSkeletons ==
    {emailSubjects[k][l] : k \in {K_received, K_assigned, K_escalated}, l \in {L_english, L_french}}

BuildEmailSubject ==
    \E status \in SubjectStatuses, template \in SubjectSkeletons,
       assignedTo \in {Str(N_Bob), Undef}, escalatedTo \in {Str(N_Eve), Undef} :
        Called("buildEmailSubject",
               [status |-> status, ticketId |-> Str(Tk_1), template |-> template,
                assignedTo |-> assignedTo, escalatedTo |-> escalatedTo],
               Value(buildEmailSubject(status, Str(Tk_1), template, assignedTo, escalatedTo)))

FunctionNext ==
    \/ ValidateSmsLength
    \/ MeasureSms
    \/ GetTemplate
    \/ NormalizeLanguage
    \/ IsValidSubject
    \/ BuildSmsMessage
    \/ BuildEmailBody
    \/ BuildEmailSubject

FunctionSpec == Init /\ [][FunctionNext]_vars

FunctionCalled(name) == pc = "done" /\ op = name

\* C13 (as claimed): validateSmsRequest rejects every request whose
\* rendered message needs more than 5 segments, at 67 code units a segment
\* when the message is unicode (a non-ASCII code unit, or kinyarwanda) and
\* 153 otherwise.
C13_SegmentCapByMessageType ==
    (FunctionCalled("validateSmsRequest") /\ ret.kind = "value") =>
        \A pair \in {RenderedPair(arg)} :
            (pair # <<>> /\ Len(pair[1]) > 5 * (IF pair[2] = "unicode" THEN 67 ELSE 153))
                => ~ret.v.isValid

\* C14: determineMessageType followed by getMessageInfo gives 153 code
\* units a part for an ASCII message in english or french and 67 for a
\* message with a non-ASCII code unit or in kinyarwanda; parts is the
\* ceiling of totalChars / maxCharsPerPart; isMultiPart is parts > 1.
C14_MeasureByMessageType ==
    FunctionCalled("getMessageInfo") =>
        LET info == ret.v
            unicode == \/ arg.language = L_kinyarwanda
                       \/ \E i \in 1..Len(arg.message) : arg.message[i] \in NonAsciiChars
        IN  /\ info.totalChars = Len(arg.message)
            /\ info.maxCharsPerPart = (IF unicode THEN 67 ELSE 153)
            /\ info.parts \in 0..info.totalChars
            /\ info.parts * info.maxCharsPerPart >= info.totalChars
            /\ info.parts > 0 => (info.parts - 1) * info.maxCharsPerPart < info.totalChars
            /\ info.isMultiPart = (info.parts > 1)

\* C14 witness: a french message of 68 code units whose last one is
\* non-ASCII was measured at 67 a part: two parts.
C14_Witness ==
    /\ FunctionCalled("getMessageInfo")
    /\ arg.language = L_french /\ Len(arg.message) = 68 /\ arg.message[68] = "u00E9"
    /\ ret.v.maxCharsPerPart = 67 /\ ret.v.parts = 2 /\ ret.v.isMultiPart

(***************************************************************************)
(* Template resolution                                                     *)
(***************************************************************************)

\* the templates of the store a getTemplate call was made on, by event key
StoreTemplates == IF arg.store = "sms" THEN smsTemplates ELSE emailSubjects

\* the event key the call names, once normalised
EventKey == replaceSeparators(toLowerCase(arg.status.s))
EventKeyExists == arg.status.t = "string" /\ EventKey \in DOMAIN StoreTemplates

\* the text getTemplate returned, whichever store it was
ReturnedText == IF arg.store = "sms" THEN ret.v.message ELSE ret.v.subject
ReturnedTemplate(language) ==
    /\ ret.kind = "value" /\ ret.v.found /\ ~ret.v.inherited
    /\ ReturnedText = StoreTemplates[EventKey][language]

SupportedLanguage == arg.language.t = "string" /\ toLowerCase(arg.language.s) \in Languages

\* C15: for an existing event key getTemplate returns the key's template in
\* the requested language when that language is supported and the key's
\* english template for any other or absent language; it returns null only
\* when the event key does not exist
C15_FallbackLaw ==
    FunctionCalled("getTemplate") =>
        /\ EventKeyExists /\ SupportedLanguage
               => ReturnedTemplate(toLowerCase(arg.language.s))
        /\ EventKeyExists /\ ~SupportedLanguage => ReturnedTemplate(L_english)
        /\ ret.kind = "value" /\ ~ret.v.found => ~EventKeyExists

(***************************************************************************)
(* Language normalisation                                                  *)
(***************************************************************************)

\* the language a documented name or alias stands for (README, Supported
\* Languages), none for any other text
DocumentedLanguage(name) ==
    IF name \in {L_english, A_en} THEN {L_english}
    ELSE IF name \in {L_french, A_fr, A_francais} THEN {L_french}
    ELSE IF name \in {L_kinyarwanda, A_rw, A_kin} THEN {L_kinyarwanda}
    ELSE {}

\* what the caller wrote, case and surrounding white space put aside
WrittenLanguage == trim(toLowerCase(arg.language.s))
Documented == arg.language.t = "string" /\ DocumentedLanguage(WrittenLanguage) # {}

\* C16: normalizeLanguage returns one of english, french, kinyarwanda for
\* every input value, string or not, and never raises; an absent input and
\* a text that matches no name (no documented one, nor the 'fran..ais'
\* label as the services spell it) yield english
C16_NormalizationTotal ==
    FunctionCalled("normalizeLanguage") =>
        /\ ret.kind = "value" /\ ret.v \in Languages
        /\ ~Documented /\ arg.language # Str(A_francaisService) => ret.v = L_english

\* C17: each documented name or alias, in any casing and with white space
\* around it, normalizes to the language it stands for, so every value
\* isValidLanguage accepts is dispatched in the language it names
C17_AliasesNormalize ==
    FunctionCalled("normalizeLanguage") =>
        /\ Documented => ret.kind = "value" /\ {ret.v} = DocumentedLanguage(WrittenLanguage)
        /\ arg.language.t = "string" /\ isValidLanguage(arg.language.s)
               => ret.kind = "value" /\ {ret.v} = DocumentedLanguage(toLowerCase(arg.language.s))

(***************************************************************************)
(* Trip notifications: POST /trip/send                                     *)
(***************************************************************************)

P_destinationName == <<"{","d","e","s","t","i","n","a","t","i","o","n","N","a","m","e","}">>

\* The trip subjects by notification type and language.  The documentation
\* lists these keys for the email store; emailTemplates.js has none of them
\* and the texts are written nowhere, so one skeleton stands for each.
tripEmailSubjects ==
    [k \in {T_trip_remaining_time, T_trip_arrival_notice} |->
        [l \in Languages |-> <<"T","r","i","p",":"," ">> \o P_destinationName]]

\* the email store with and without the trip templates
TripEmailStores == {emailSubjects, emailSubjects @@ tripEmailSubjects}

\* what a channel's send function returns
TripSent(message, phoneNumber) ==
    [null |-> FALSE, success |-> TRUE, status |-> "sent", message |-> message,
     phoneNumber |-> phoneNumber, error |-> "undefined"]
TripFailed(message, error) ==
    [null |-> FALSE, success |-> FALSE, status |-> "failed", message |-> message,
     phoneNumber |-> Undef, error |-> error]

\* a call of a send function: it returned `result` or raised `message`
TripReturned(result, made) ==
    [raised |-> FALSE, message |-> "", result |-> result, calls |-> made]
TripRaised(message) ==
    [raised |-> TRUE, message |-> message, result |-> TripFailed(message, message),
     calls |-> <<>>]

\* EmailService.buildTripEmailSubject(notificationType, template, destinationName)
buildTripEmailSubject(templateSubject, destinationName) ==
    replaceFirst(templateSubject, P_destinationName, ToText(destinationName))

\* EmailService.sendTripEmail(tripData) reading the templates of `store`,
\* the transport answering `outcome`: every throw of the try block is
\* caught and comes back as a failed result
sendTripEmail(tripData, store, outcome) ==
    LET Sending(sent) ==
            IF sent.raised
            THEN TripReturned(TripFailed(sent.error,
                                         IF outcome = "rejected" THEN "response body"
                                         ELSE sent.error), sent.calls)
            ELSE TripReturned(TripSent("Trip email sent successfully", Undef), sent.calls)
        Resolved(normalizedLanguage, template) ==
            IF normalizedLanguage.raised \/ template.raised \/ template.inherited
            THEN TripReturned(TripFailed(TypeErrorMessage, TypeErrorMessage), <<>>)
            ELSE IF ~template.found
            THEN TripReturned(TripFailed("Template not found", "Template not found"), <<>>)
            ELSE Sending(sendMail(Get(tripData, "email"),
                                  buildTripEmailSubject(template.subject,
                                                        Get(tripData, "destinationName")),
                                  outcome))
        Normalized(normalizedLanguage) ==
            Resolved(normalizedLanguage,
                     emailGetTemplateFrom(store, Get(tripData, "notificationType"),
                                          Str(normalizedLanguage.lang)))
    IN  Normalized(normalizeLanguage(Get(tripData, "language")))

\* smsService.sendTripSms(tripData) where the service has it: the SMS
\* single-item path, which hands the transport one message for the phone
\* number and returns a result for either outcome.  The message text is not
\* specified; the call carries the destination it is about.
sendTripSms(tripData, outcome) ==
    LET Sending(sent) ==
            IF sent.raised THEN TripReturned(TripFailed(sent.error, sent.error), sent.calls)
            ELSE TripReturned(TripSent("Trip SMS sent successfully",
                                       Get(tripData, "phoneNumber")), sent.calls)
    IN  Sending(sendSms(Get(tripData, "phoneNumber"),
                        ToText(Get(tripData, "destinationName")), "plain", outcome))

\* results = { email: null, sms: null }
NullResult ==
    [null |-> TRUE, success |-> FALSE, status |-> "undefined", message |-> "",
     phoneNumber |-> Undef, error |-> "undefined"]
NoTripResults == [email |-> NullResult, sms |-> NullResult]

\* a channel's result with success set whatever the send function returned
channelResult_AlwaysSuccess(attempt) ==
    [TripFailed(attempt.message, attempt.message) EXCEPT !.success = TRUE]

\* results.email / results.sms after one channel's try/catch: the fields of
\* what the send function returned, or a failed result when it raised
channelResult(attempt) ==
    IF attempt.raised THEN TripFailed(attempt.message, attempt.message)
    ELSE [attempt.result EXCEPT !.error = IF attempt.result.success THEN "null" ELSE @]

\* overallSuccess of the handler, one that any successful channel satisfies
overallSuccess_AnyChannel(tripResults) ==
    \/ tripResults.email.null \/ tripResults.email.success
    \/ tripResults.sms.null \/ tripResults.sms.success

\* const overallSuccess = (results.email === null || results.email.success)
\*                        && (results.sms === null || results.sms.success)
overallSuccess(tripResults) ==
    /\ tripResults.email.null \/ tripResults.email.success
    /\ tripResults.sms.null \/ tripResults.sms.success

\* the response: res.status(...).json(...)
tripValidationFailed(errors) ==
    [status |-> 400, success |-> FALSE, code |-> "VALIDATION_FAILED", details |-> errors,
     results |-> NoTripResults]
tripResponse(tripResults) ==
    [status |-> IF overallSuccess(tripResults) THEN 200 ELSE 400,
     success |-> overallSuccess(tripResults), code |-> "", details |-> <<>>,
     results |-> tripResults]

\* ---- the handler, one action per stretch between two awaits ----

\* validation; a request that fails it is answered at once
TripSend ==
    /\ pc = "idle"
    /\ \E tripData \in TripRequests : \E validation \in {validateTripRequest(tripData)} :
          /\ arg' = tripData
          /\ IF validation.isValid
             THEN pc' = "tripEmail" /\ ret' = NoValue
             ELSE pc' = "done" /\ ret' = Value(tripValidationFailed(validation.errors))
    /\ op' = "tripSend"
    /\ results' = NoTripResults
    /\ calls' = <<>>
    /\ UNCHANGED <<list, idx, messageGroups, env>>

\* if (tripData.email) { try { await emailService.sendTripEmail ... } catch ... }
TripSendEmail ==
    /\ pc = "tripEmail"
    /\ IF Truthy(Get(arg, "email"))
       THEN \E store \in TripEmailStores, outcome \in EmailOutcomes :
               \E attempt \in {sendTripEmail(arg, store, outcome)} :
                  /\ results' = [results EXCEPT !.email = channelResult(attempt)]
                  /\ calls' = calls \o attempt.calls
       ELSE UNCHANGED <<results, calls>>
    /\ pc' = "tripSms"
    /\ UNCHANGED <<op, arg, list, idx, messageGroups, ret, env>>

\* if (tripData.phoneNumber) { try { await smsService.sendTripSms ... } catch ... }
\* and the response.  smsService.js has no sendTripSms, so the call is a
\* TypeError with it (hasSendTripSms FALSE).
TripSendSms ==
    /\ pc = "tripSms"
    /\ \E hasSendTripSms \in BOOLEAN, outcome \in SmsOutcomes :
          \E attempt \in {IF hasSendTripSms THEN sendTripSms(arg, outcome)
                          ELSE TripRaised(TypeErrorMessage)} :
          \E tripResults \in {IF Truthy(Get(arg, "phoneNumber"))
                              THEN [results EXCEPT !.sms = channelResult(attempt)]
                              ELSE results} :
             /\ results' = tripResults
             /\ calls' = IF Truthy(Get(arg, "phoneNumber")) THEN calls \o attempt.calls ELSE calls
             /\ ret' = Value(tripResponse(tripResults))
    /\ pc' = "done"
    /\ UNCHANGED <<op, arg, list, idx, messageGroups, env>>

\* ---- POST /trip/send-bulk ----

MaxTrips == 2
MaxTripBatch == 20

TripItem(email, phoneNumber, name) ==
    Obj([email |-> email, phoneNumber |-> phoneNumber, name |-> name,
         language |-> Str(L_english), notificationType |-> Str(T_trip_arrival_notice),
         destinationName |-> Str(Dest_Kigali), remainingTime |-> Undef, tripId |-> Undef])
TripItems ==
    {TripItem(Str(E_ok), Undef, Str(N_Alice)), TripItem(Undef, Str(Ph_ok), Str(N_Bob)),
     TripItem(Str(E_ok), Str(Ph_ok), Str(N_Eve)), TripItem(Str(E_ok), Str(Ph_ok), Undef)}
TripBatches == UNION {[1..n -> TripItems] : n \in 0..MaxTrips}

\* validateBulkTripRequest(tripList) on an array: the errors of every trip,
\* each under its position (`Trip ${index + 1}: ${error}`)
RECURSIVE tripListErrors(_, _)
tripListErrors(tripList, index) ==
    IF index > Len(tripList) THEN <<>>
    ELSE LET Prefixed(errors) == [k \in 1..Len(errors) |-> [trip |-> index, error |-> errors[k]]]
         IN  Prefixed(validateTripRequest(tripList[index]).errors)
                 \o tripListErrors(tripList, index + 1)

validateBulkTripRequest(tripList) ==
    IF Len(tripList) = 0 THEN Verdict(<<"tripList array cannot be empty">>)
    ELSE IF Len(tripList) > MaxTripBatch
    THEN Verdict(<<"maximum 20 trip notifications allowed per batch">>)
    ELSE Verdict(tripListErrors(tripList, 1))

\* a 400 answer of the batch handler
tripBatchRefused(code, details) ==
    [status |-> 400, success |-> FALSE, code |-> code, details |-> details,
     summary |-> [successful |-> 0, failed |-> 0], results |-> <<>>]

\* results.reduce(...): a trip counts as successful when each of its
\* channels is null or succeeded
tripSummary(tripResults) ==
    [successful |-> Cardinality({i \in 1..Len(tripResults) : overallSuccess(tripResults[i])}),
     failed |-> Cardinality({i \in 1..Len(tripResults) : ~overallSuccess(tripResults[i])})]

tripBatchResponse(tripResults) ==
    [status |-> 200, success |-> TRUE, code |-> "", details |-> <<>>,
     summary |-> tripSummary(tripResults), results |-> tripResults]

\* the checks and the validation of the whole batch; `isArray` says whether
\* req.body.trips is an array
TripSendBulk ==
    /\ pc = "idle"
    /\ \E isArray \in BOOLEAN, trips \in TripBatches :
          \E validation \in {validateBulkTripRequest(trips)} :
             /\ list' = trips
             /\ arg' = IF isArray THEN Obj(NoFields) ELSE NonObj(Undef)
             /\ IF ~isArray \/ Len(trips) = 0
                THEN pc' = "done" /\ ret' = Value(tripBatchRefused("INVALID_INPUT", <<>>))
                ELSE IF Len(trips) > MaxTripBatch
                THEN pc' = "done" /\ ret' = Value(tripBatchRefused("BATCH_SIZE_EXCEEDED", <<>>))
                ELSE IF ~validation.isValid
                THEN pc' = "done"
                     /\ ret' = Value(tripBatchRefused("VALIDATION_FAILED", validation.errors))
                ELSE pc' = "bulkTripEmail" /\ ret' = NoValue
    /\ op' = "tripSendBulk"
    /\ idx' = 1
    /\ results' = <<>>
    /\ calls' = <<>>
    /\ UNCHANGED <<messageGroups, env>>

\* one trip of the loop up to its email attempt; the trip's result object is
\* kept as the last element of results from here on
TripBulkEmail ==
    /\ pc = "bulkTripEmail"
    /\ IF Truthy(Get(list[idx], "email"))
       THEN \E store \in TripEmailStores, outcome \in EmailOutcomes :
               \E attempt \in {sendTripEmail(list[idx], store, outcome)} :
                  /\ results' = Append(results, [email |-> channelResult(attempt),
                                                 sms |-> NullResult])
                  /\ calls' = calls \o attempt.calls
       ELSE results' = Append(results, NoTripResults) /\ UNCHANGED calls
    /\ pc' = "bulkTripSms"
    /\ UNCHANGED <<op, arg, list, idx, messageGroups, ret, env>>

\* the trip's SMS attempt, then the next trip or the response
TripBulkSms ==
    /\ pc = "bulkTripSms"
    /\ \E hasSendTripSms \in BOOLEAN, outcome \in SmsOutcomes :
          \E attempt \in {IF hasSendTripSms THEN sendTripSms(list[idx], outcome)
                          ELSE TripRaised(TypeErrorMessage)} :
          \E tripResults \in {IF Truthy(Get(list[idx], "phoneNumber"))
                              THEN [results EXCEPT ![idx].sms = channelResult(attempt)]
                              ELSE results} :
             /\ results' = tripResults
             /\ calls' = IF Truthy(Get(list[idx], "phoneNumber"))
                         THEN calls \o attempt.calls ELSE calls
             /\ IF idx = Len(list)
                THEN pc' = "done" /\ ret' = Value(tripBatchResponse(tripResults))
                              /\ UNCHANGED idx
                ELSE pc' = "bulkTripEmail" /\ idx' = idx + 1 /\ UNCHANGED ret
    /\ UNCHANGED <<op, arg, list, messageGroups, env>>

TripNext ==
    \/ TripSend
    \/ TripSendEmail
    \/ TripSendSms
    \/ TripSendBulk
    \/ TripBulkEmail
    \/ TripBulkSms

TripSpec == Init /\ [][TripNext]_vars

\* ---- properties ----

TripAnswered == pc = "done" /\ op = "tripSend" /\ ret.kind = "value"
TripDispatched == TripAnswered /\ ret.v.code # "VALIDATION_FAILED"

\* the channels that were attempted, by their results
Attempted(channel) == ~results[channel].null
ChannelSucceeded(channel) == Attempted(channel) /\ results[channel].success

Delivered(channel) ==
    \E i \in 1..Len(calls) : calls[i].channel = channel /\ calls[i].outcome = "ok"

RemainingTimeRequired == "remainingTime is required for trip_remaining_time notifications"
RemainingTimeErrors ==
    {RemainingTimeRequired, "remainingTime must be a string",
     "remainingTime must be in a valid format (e.g., \"2 hours\", \"30 minutes\", \"1 hour 30 minutes\")"}

\* the request names the time-remaining variant in a spelling validation
\* accepts for it
NamesTimeRemaining ==
    /\ arg.t = "object" /\ Get(arg, "notificationType").t = "string"
    /\ isValidTripNotificationType(trim(Get(arg, "notificationType").s))
    /\ replaceSeparators(toLowerCase(trim(Get(arg, "notificationType").s)))
           = T_trip_remaining_time

ReportedErrors == {ret.v.errors[i] : i \in 1..Len(ret.v.errors)}

\* C20: a trip request whose notificationType validation accepts as the
\* trip_remaining_time key, in any casing or separator spelling, fails
\* validation with the "remainingTime is required" error when it has no
\* remainingTime, and has no remainingTime error when remainingTime is
\* "2 hours"
C20_RemainingTimeRequired ==
    pc = "done" /\ op = "validateTripRequest" /\ NamesTimeRemaining =>
        /\ ret.kind = "value"
        /\ IsNullish(Get(arg, "remainingTime"))
               => ~ret.v.isValid /\ RemainingTimeRequired \in ReportedErrors
        /\ Get(arg, "remainingTime") = Str(RT_2hours)
               => ReportedErrors \cap RemainingTimeErrors = {}

(***************************************************************************)
(* Bulk trip dispatch                                                      *)
(***************************************************************************)

TripBatchAnswered == pc = "done" /\ op = "tripSendBulk" /\ ret.kind = "value"
Malformed(i) == ~validateTripRequest(list[i]).isValid

\* a batch of trips, an array, with exactly one malformed item
OneMalformed ==
    /\ TripBatchAnswered /\ arg.t = "object" /\ Len(list) >= 1
    /\ Cardinality({i \in 1..Len(list) : Malformed(i)}) = 1

\* item i of the batch was dispatched: the answer holds its result, with
\* each channel the item names attempted
DispatchedItem(i) ==
    /\ i <= Len(ret.v.results)
    /\ ~ret.v.results[i].email.null <=> Truthy(Get(list[i], "email"))
    /\ ~ret.v.results[i].sms.null <=> Truthy(Get(list[i], "phoneNumber"))

\* C21: in a batch of trip requests with one malformed item, the answer has
\* one result per item, the malformed item is the only one reported failed
\* for being malformed and every other item was dispatched on its channels
C21_BulkTripIsolation ==
    OneMalformed =>
        /\ Len(ret.v.results) = Len(list)
        /\ \A i \in 1..Len(list) : ~Malformed(i) => DispatchedItem(i)

(***************************************************************************)
(* Event-type normalisation                                                *)
(***************************************************************************)

Separators == {"-", "_"} \cup SpaceChars

\* the canonical key as stated: lower case, every run of hyphens,
\* underscores and white space collapsed into one underscore
RECURSIVE collapsed(_)
collapsed(s) ==
    IF s = <<>> THEN <<>>
    ELSE IF s[1] \in Separators
    THEN IF Len(s) > 1 /\ s[2] \in Separators THEN collapsed(Tail(s))
         ELSE <<"_">> \o collapsed(Tail(s))
    ELSE <<toLowerChar(s[1])>> \o collapsed(Tail(s))

\* C22: a key that differs from an event key only in casing or in the kind
\* or number of separators is normalised to that event key: isValidSubject
\* accepts it and getTemplate resolves it to the event key's templates
C22_SeparatorRunsCollapse ==
    /\ FunctionCalled("isValidSubject") /\ collapsed(arg.status.s) \in getAvailableStatuses
           => ret.v = TRUE
    /\ FunctionCalled("getTemplate") /\ arg.status.t = "string" /\ SupportedLanguage
         /\ collapsed(arg.status.s) \in DOMAIN StoreTemplates
           => /\ ret.kind = "value" /\ ret.v.found
              /\ ReturnedText = StoreTemplates[collapsed(arg.status.s)][toLowerCase(arg.language.s)]

(***************************************************************************)
(* Rendering                                                               *)
(***************************************************************************)

Rendered == FunctionCalled("buildSmsMessage") \/ FunctionCalled("buildEmailBody")

\* the value that stands for each placeholder: the data field when it is
\* present and not empty, the channel's default otherwise
FieldOr(field, default) ==
    IF Truthy(Get(arg.data, field)) THEN ToText(Get(arg.data, field)) ELSE default
PlaceholderValues ==
    << <<P_name, FieldOr("name", IF op = "buildSmsMessage" THEN D_Customer
                                 ELSE D_ValuedCustomer)>>,
       <<P_ticketId, FieldOr("ticketId", D_NA)>>,
       <<P_issueTitle, FieldOr("issueTitle", D_YourIssue)>>,
       <<P_assignedTo, FieldOr("assignedTo", <<>>)>>,
       <<P_escalatedTo, FieldOr("escalatedTo", <<>>)>>,
       <<P_responseMessage, FieldOr("responseMessage", <<>>)>>,
       <<P_currentDate, IF op = "buildSmsMessage" THEN currentDate ELSE currentDateTime>> >>

\* the skeleton read once from left to right: a placeholder gives way to its
\* value, every other code unit is copied
RECURSIVE filled(_, _)
filled(skeleton, values) ==
    LET braces == {i \in 1..Len(skeleton) : skeleton[i] = "{"}
    IN  IF braces = {} THEN skeleton
        ELSE LET b == CHOOSE i \in braces : \A j \in braces : i <= j
                 starting == {k \in 1..Len(values) :
                                /\ b + Len(values[k][1]) - 1 <= Len(skeleton)
                                /\ SubSeq(skeleton, b, b + Len(values[k][1]) - 1) = values[k][1]}
             IN  IF starting = {}
                 THEN SubSeq(skeleton, 1, b) \o filled(SubSeq(skeleton, b + 1, Len(skeleton)), values)
                 ELSE LET k == CHOOSE k \in starting : TRUE
                      IN  SubSeq(skeleton, 1, b - 1) \o values[k][2]
                              \o filled(SubSeq(skeleton, b + Len(values[k][1]), Len(skeleton)),
                                        values)

\* C23: the output of buildSmsMessage and of buildEmailBody is the skeleton
\* with every occurrence of every placeholder replaced by the data field,
\* or by the channel's default when the field is absent or empty, and
\* nothing else changed
C23_RenderingGlobalAndDefaulted ==
    Rendered => ret.v = filled(arg.template, PlaceholderValues)

(***************************************************************************)
(* Email subject                                                           *)
(***************************************************************************)

\* the names a subject may carry for an event type
AllowedNames(eventType) ==
    (IF eventType \in {K_assigned, K_escalated} THEN {"assignedTo"} ELSE {})
        \cup (IF eventType = K_escalated THEN {"escalatedTo"} ELSE {})

\* the skeleton with the ticket id and the given names filled in
SubjectWith(names) ==
    filled(arg.template,
           << <<P_ticketId, ToText(arg.ticketId)>> >>
               \o (IF "assignedTo" \in names /\ Truthy(arg.assignedTo)
                   THEN << <<P_assignedTo, ToText(arg.assignedTo)>> >> ELSE <<>>)
               \o (IF "escalatedTo" \in names /\ Truthy(arg.escalatedTo)
                   THEN << <<P_escalatedTo, ToText(arg.escalatedTo)>> >> ELSE <<>>))

\* C24: the subject is the skeleton with the ticket id filled in and, of
\* the two names, at most those the event type allows: the assignee for
\* 'assigned' and 'escalated', the escalation target for 'escalated'; for
\* every other event type only the ticket id is filled in
C24_SubjectConditional ==
    FunctionCalled("buildEmailSubject") =>
        \E names \in SUBSET AllowedNames(replaceSeparators(toLowerCase(arg.status.s))) :
            ret.v = SubjectWith(names)

\* an 'assigned' subject that carries the assignee
C24_Witness ==
    /\ FunctionCalled("buildEmailSubject") /\ arg.status = Str(K_assigned)
    /\ ret.v = SubjectWith({"assignedTo"}) /\ ret.v # SubjectWith({})

(***************************************************************************)
(* Measured and sent SMS text                                              *)
(***************************************************************************)

\* sendIssueSms returned for a request that passed validation and reached
\* the transport
SmsHandedOver ==
    /\ pc = "done" /\ op = "sendIssueSms" /\ arg.t = "object"
    /\ ~ValidationFailed /\ calls # <<>>

\* the message validateTemplateLength measured for the request
MeasuredMessage ==
    getTemplateInfo(Get(arg, "subject"), Get(arg, "language"), arg).message

\* C25: for a request that validateSmsRequest accepts, the message whose
\* length validation checked is the message sendIssueSms hands to the
\* transport
C25_MeasuredIsSent ==
    SmsHandedOver => calls[1].text = MeasuredMessage

\* C26: after a passed validation the template resolution of sendIssueEmail
\* and of sendIssueSms succeeds: the dispatch does not fail with 'Template
\* not found'
C26_ValidationImpliesResolution ==
    (SingleDone /\ arg.t = "object" /\ ~ValidationFailed) =>
        /\ ~TemplateMissing
        /\ ret.kind = "value" => ret.v.message # "Template not found"

\* C27: the subject handed to the email transport for a validated request
\* holds no placeholder token
C27_NoRawPlaceholderInSubject ==
    (pc = "done" /\ op = "sendIssueEmail" /\ calls # <<>>) =>
        \A token \in {P_ticketId, P_assignedTo, P_escalatedTo} :
            matchesOf(calls[1].text, token) = {}

\* a text of 7 to 15 digits and nothing else (the result of
\* normalizePhoneNumber on a valid phone number)
NormalizedRecipient(recipient) ==
    /\ Len(recipient) \in MinPhoneDigits..MaxPhoneDigits
    /\ \A i \in 1..Len(recipient) : recipient[i] \in DigitChars

\* C28: every recipient handed to the SMS transport, by sendIssueSms and by
\* sendBulkSms, is a normalized phone number: 7 to 15 digits and nothing
\* else
C28_RecipientNormalized ==
    (pc = "done" /\ op \in {"sendIssueSms", "sendBulkSms"}) =>
        \A c \in 1..Len(calls) :
            calls[c].channel = "sms" =>
                IF op = "sendBulkSms" THEN NormalizedRecipient(calls[c].to)
                ELSE calls[c].to.t = "string" /\ NormalizedRecipient(calls[c].to.s)

(***************************************************************************)
(* Data fields in the rendered text                                        *)
(***************************************************************************)

\* the data fields a request supplies, each with its placeholder
DataPlaceholders ==
    { <<"name", P_name>>, <<"ticketId", P_ticketId>>, <<"issueTitle", P_issueTitle>>,
      <<"assignedTo", P_assignedTo>>, <<"escalatedTo", P_escalatedTo>>,
      <<"responseMessage", P_responseMessage>> }
SuppliedIn(skeleton) ==
    { d \in DataPlaceholders : /\ Truthy(Get(arg.data, d[1]))
                               /\ matchesOf(skeleton, d[2]) # {} }

\* C29: the text supplied in a data field whose placeholder the skeleton
\* holds is found as supplied in the rendered text, also when it holds a
\* placeholder token itself: a value put in is not replaced again by
\* another field's value
C29_SuppliedTextVerbatim ==
    Rendered => \A d \in SuppliedIn(arg.template) :
                    matchesOf(ret.v, ToText(Get(arg.data, d[1]))) # {}

(***************************************************************************)
(* Configuration tests (POST /email/test, POST /sms/test)                  *)
(***************************************************************************)

MaxTestRequests == 3

E_other == <<"q","@","r",".","c","o">>
Ph_other == <<"2","5","0","7","8","8","3">>
DefaultTestEmail == <<"t","e","s","t","@","e","x","a","m","p","l","e",".","c","o","m">>
DefaultTestPhone == <<"2","5","0","7","8","8","6","0","6","7","6","5">>
TestEmailSubject ==
    <<"C","E","S"," ","E","m","a","i","l"," ","S","e","r","v","i","c","e"," ","T","e","s","t">>
TestSmsMessage ==
    <<"C","E","S"," ","S","M","S"," ","S","e","r","v","i","c","e"," ","T","e","s","t"," ","-"," ",
      "C","o","n","f","i","g","u","r","a","t","i","o","n"," ","w","o","r","k","i","n","g"," ",
      "c","o","r","r","e","c","t","l","y">>

\* the deployment's process.env: no test recipient set, or both set
ConfiguredEnvs == {UnsetEnv, [TEST_EMAIL |-> Str(E_ok), TEST_PHONE |-> Str(Ph_ok)]}

\* the testEmail / testPhone of a request body: absent, empty, a string, a
\* number
TestEmails == {Undef, Str(<<>>), Str(E_other), Five}
TestPhones == {Undef, Str(<<>>), Str(Ph_other), Five}
TestOutcomes == {"ok", "rejected"}

\* process.env.NAME = value: the environment stores the value as a string
setEnv(environment, name, value) == [environment EXCEPT ![name] = Str(ToText(value))]

\* EmailService.testConfiguration: one message to process.env.TEST_EMAIL ||
\* 'test@example.com'; a throw of the transport is caught
emailTestConfiguration(environment, outcome) ==
    LET Tried(sent) ==
            [success |-> ~sent.raised,
             message |-> IF sent.raised THEN "Email service configuration failed"
                         ELSE "Email service configuration is working correctly",
             error |-> sent.error,
             calls |-> sent.calls]
    IN  Tried(sendMail(IF Truthy(environment.TEST_EMAIL) THEN environment.TEST_EMAIL
                       ELSE Str(DefaultTestEmail),
                       TestEmailSubject, outcome))

\* SmsService.testConfiguration: one plain SMS to process.env.TEST_PHONE ||
\* '250788606765'; a throw of sendSms is caught
smsTestConfiguration(environment, outcome) ==
    LET Tried(sent) ==
            [success |-> ~sent.raised,
             message |-> IF sent.raised THEN "SMS service configuration failed"
                         ELSE "SMS service configuration is working correctly",
             error |-> sent.error,
             calls |-> sent.calls]
    IN  Tried(sendSms(IF Truthy(environment.TEST_PHONE) THEN environment.TEST_PHONE
                      ELSE Str(DefaultTestPhone),
                      TestSmsMessage, "plain", outcome))

\* the answer of either route: 200 with the message and the test recipient
\* read from process.env, or 400 CONFIG_TEST_FAILED
testResponse(result, recipient) ==
    IF result.success
    THEN [status |-> 200, success |-> TRUE, message |-> result.message,
          recipient |-> recipient, code |-> ""]
    ELSE [status |-> 400, success |-> FALSE, message |-> result.message,
          recipient |-> Undef, code |-> "CONFIG_TEST_FAILED"]

TestInit ==
    /\ pc = "idle"
    /\ op = "none"
    /\ arg = NonObj(Undef)
    /\ list = <<>>
    /\ idx = 0
    /\ messageGroups = <<>>
    /\ results = <<>>
    /\ calls = <<>>
    /\ ret = NoValue
    /\ env \in ConfiguredEnvs

\* one request handled by a route: the override when the body has one, the
\* test message, the answer
TestAnswered(name, body, environment, result, recipient) ==
    /\ pc' = "done"
    /\ op' = name
    /\ arg' = body
    /\ env' = environment
    /\ calls' = calls \o result.calls
    /\ ret' = Value(testResponse(result, recipient))
    /\ UNCHANGED <<list, idx, messageGroups, results>>

\* router.post('/email/test'): requests are handled one after the other by
\* the same process
PostEmailTest ==
    /\ pc \in {"idle", "done"}
    /\ Len(calls) < MaxTestRequests
    /\ \E testEmail \in TestEmails, outcome \in TestOutcomes :
         \E environment \in {IF Truthy(testEmail) THEN setEnv(env, "TEST_EMAIL", testEmail)
                             ELSE env} :
            TestAnswered("emailTest", testEmail, environment,
                         emailTestConfiguration(environment, outcome),
                         environment.TEST_EMAIL)

\* router.post('/sms/test')
PostSmsTest ==
    /\ pc \in {"idle", "done"}
    /\ Len(calls) < MaxTestRequests
    /\ \E testPhone \in TestPhones, outcome \in TestOutcomes :
         \E environment \in {IF Truthy(testPhone) THEN setEnv(env, "TEST_PHONE", testPhone)
                             ELSE env} :
            TestAnswered("smsTest", testPhone, environment,
                         smsTestConfiguration(environment, outcome),
                         environment.TEST_PHONE)

TestNext ==
    \/ PostEmailTest
    \/ PostSmsTest

TestSpec == TestInit /\ [][TestNext]_vars

\* C30: a configuration-test request leaves the configured test recipients
\* as they were before it: process.env after the request is process.env
\* before it, so a later request without an override sends to the recipient
\* configured originally
C30_OverrideTemporary == [][env' = env]_vars

====
